---- MODULE Spec2Model ----
(***************************************************************************)
(* State-machine model of src/src/app/page.tsx (WebRTCDataTest): the       *)
(* signaling session (initialize / createOffer / handleRemoteOffer /       *)
(* handleRemoteAnswer / reset), the candidate registries, the engine       *)
(* callbacks and the statistics analyses, with every await and setTimeout  *)
(* of the handlers as a separate step.                                     *)
(*                                                                         *)
(* Conventions.  A ref holding an engine or a channel is the engine's      *)
(* number, Null when the ref is null.  The event stream (the `messages`   *)
(* array) is written by every handler and read by none: the model keeps    *)
(* the entries the step just taken appended, in order, the text being the  *)
(* template's leading words.  `tasks` is the set of suspended              *)
(* continuations (an await) and armed timers (a setTimeout).               *)
(***************************************************************************)
EXTENDS Integers, Sequences, FiniteSets, TLC

\* Bounds of the model.
MaxEngines == 2     \* RTCPeerConnection objects constructed in one run
MaxAwaits  == 1     \* promises awaited at once
MaxTimers  == 1     \* timers armed at once
MaxFetches == 2     \* default-server fetches in flight at once

Null == 0
None == "none"

VARIABLES
    peerConnection,        \* useRef: engine number or Null
    dataChannel,           \* useRef: number of the engine owning the channel, or Null
    localStream,           \* useRef: TRUE when a MediaStream is held
    localCandidates,       \* useRef Map: key -> ICECandidateInfo
    remoteCandidates,      \* useRef Map
    candidatePairs,        \* useRef Map
    isInitiator,           \* useState
    localOffer,            \* useState: NoText for '' or the stringified description
    localAnswer,           \* useState
    remoteOffer,           \* useState: text of the remote-offer box
    remoteAnswer,          \* useState: text of the remote-answer box
    mediaPermissionState,  \* useState
    iceServersLoading,     \* useState
    iceServers,            \* useState: the server list initializeWebRTC hands to the engine
    usingCustomIceServers, \* useState
    customIceServersText,  \* useState: text of the custom-servers box
    customIceServersError, \* useState
    showCustomIceConfig,   \* useState: the configuration panel is rendered
    fetches,               \* fetch('/api/ice') calls of fetchDefaultIceServers in flight
    applied,               \* history: the custom list applied last
    messages,              \* useState: the entries appended by the last step
    engines,               \* sequence of the RTCPeerConnection objects constructed so far
    tasks,                 \* suspended continuations and armed timers
    limits,                \* the bounds this run is explored within; never changes
    delivered,             \* history: candidates delivered since the registry was last cleared
    last                   \* history: the handler step taken last, and the phase it ran in

vars == <<peerConnection, dataChannel, localStream, localCandidates, remoteCandidates,
          candidatePairs, isInitiator, localOffer, localAnswer, remoteOffer, remoteAnswer,
          mediaPermissionState, iceServersLoading, iceServers, usingCustomIceServers,
          customIceServersText, customIceServersError, showCustomIceConfig, fetches,
          applied, messages, engines, tasks, limits, delivered, last>>

\* The server configuration of the page.
iceConfig == <<iceServers, usingCustomIceServers, customIceServersText,
               customIceServersError, showCustomIceConfig, fetches, applied>>

\* The refs and React state a handler may write, without the engine objects.
session == <<peerConnection, dataChannel, localStream, localCandidates, remoteCandidates,
             candidatePairs, isInitiator, localOffer, localAnswer, remoteOffer, remoteAnswer,
             mediaPermissionState>>

\* A Map: its entries in insertion order.
EmptyMap == <<>>

\* The keys of a Map, and Map.get of a key it holds.
Keys(m) == {m[i].key : i \in DOMAIN m}
Get(m, k) == m[CHOOSE i \in DOMAIN m : m[i].key = k].value

\* No description.
NoArg == [type |-> None, by |-> Null]

\* The empty string of a description box.
NoText == [kind |-> "empty", value |-> NoArg]

\* Map.set: a held key keeps its place, a new key goes last.
Put(m, k, v) ==
    IF k \in Keys(m)
    THEN [i \in DOMAIN m |-> IF m[i].key = k THEN [key |-> k, value |-> v] ELSE m[i]]
    ELSE Append(m, [key |-> k, value |-> v])

\* One entry of the event stream.  stale: the handler that appended it was
\* called before the last reset().
Msg(type, text, stale) == [type |-> type, text |-> text, stale |-> stale]

\* Nothing appended.
NoMessages == << >>

\* addMessage(text, type): append to the stream.
addMessage(ms, type, text, stale) == Append(ms, Msg(type, text, stale))

\* The categories of the entries appended.
Types(ms) == {ms[i].type : i \in DOMAIN ms}

\* A freshly constructed RTCPeerConnection.
NewEngine ==
    [closed |-> FALSE, wired |-> FALSE, sig |-> "stable", local |-> None, remote |-> None,
     ice |-> "new", conn |-> "new", channel |-> None, ondatachannel |-> FALSE,
     gathering |-> "new"]

\* The signaling phase, read off the refs and the engine.
Phase ==
    IF peerConnection = Null THEN "idle"
    ELSE LET e == engines[peerConnection] IN
         IF isInitiator
         THEN IF e.remote = "answer" THEN "answered"
              ELSE IF e.local = "offer"
                   THEN (IF localOffer # NoText THEN "awaiting-answer" ELSE "offer-created")
                   ELSE "initiator-ready"
         ELSE IF e.local = "answer"
              THEN (IF localAnswer # NoText THEN "answered" ELSE "answer-created")
              ELSE IF e.remote = "offer" THEN "offer-received" ELSE "receiver-ready"

\* The handlers a control of the page starts, other than reset and initializeWebRTC.
ControlOps ==
    {"requestMediaPermissions", "createOffer", "setRemoteOffer", "handleRemoteOffer",
     "setRemoteAnswer", "handleRemoteAnswer"}

\* History of a step: the handler step; the phase it ran in; run: 1 after reset(),
\* 2 once initializeWebRTC() was called right after it and no other control was
\* used since (3 is set by the resumption of that call); refused: a malformed
\* offer was refused since the session was initialized; effects: what the step did
\* to the engine, the channel, the refs and the maps, in the order it did it (kept
\* for reset() only); again: reset() ran right after reset(); stats: the reports
\* getStats() resolved with, for the step that reads them.
Step(op) ==
    [op |-> op, phase |-> Phase, effects |-> <<>>,
     again |-> (op = "reset" /\ last.op = "reset"), stats |-> <<>>,
     run |-> IF op = "reset" THEN 1
             ELSE IF op = "initializeWebRTC" THEN (IF last.run = 1 THEN 2 ELSE 0)
             ELSE IF op \in ControlOps THEN 0
             ELSE IF last.run = 2 THEN 2 ELSE 0,
     refused |-> IF op \in {"reset", "initializeWebRTC"} THEN FALSE ELSE last.refused]

\* A suspended continuation or an armed timer.  eng: the engine the awaited
\* call was made on; role: the asInitiator argument of a suspended initialize;
\* arg: the description carried (its type and the engine that made it);
\* stale: the handler was called before the last reset().
Task(kind, step, eng, role, arg, stale) ==
    [kind |-> kind, step |-> step, eng |-> eng, role |-> role, arg |-> arg,
     stale |-> stale]


\* An ICE server of a list: its urls (joined when an array), what `urls` is (a
\* string, an array, missing or empty, or something else), and whether it
\* carries a username.
Server(urls, shape, username) == [urls |-> urls, shape |-> shape, username |-> username]

\* useState<IceServer[]>([]).
NoServers == << >>

\* The text of the custom-servers box: blank, no JSON, or JSON that is an array of
\* servers or some other value.
BlankText == [kind |-> "blank", array |-> FALSE, servers |-> NoServers]
JunkText == [kind |-> "junk", array |-> FALSE, servers |-> NoServers]
JsonText(array, servers) == [kind |-> "json", array |-> array, servers |-> servers]

\* The component after its first render and the effect of mount.
Mounted ==
    /\ peerConnection = Null
    /\ dataChannel = Null
    /\ localStream = FALSE
    /\ localCandidates = EmptyMap
    /\ remoteCandidates = EmptyMap
    /\ candidatePairs = EmptyMap
    /\ isInitiator = FALSE
    /\ localOffer = NoText
    /\ localAnswer = NoText
    /\ remoteOffer = NoText
    /\ remoteAnswer = NoText
    /\ mediaPermissionState = "none"
    /\ iceServersLoading = TRUE
    /\ iceServers = NoServers
    /\ usingCustomIceServers = FALSE
    /\ customIceServersText = BlankText
    /\ customIceServersError = ""
    /\ showCustomIceConfig = FALSE
    /\ fetches = 1
    /\ applied = NoServers
    /\ messages = addMessage(NoMessages, "system", "Loading default ICE servers...", FALSE)
    /\ engines = << >>
    /\ tasks = {}
    /\ delivered = {}
    /\ last = [op |-> "mount", phase |-> "idle", effects |-> <<>>, again |-> FALSE,
               stats |-> <<>>,
               run |-> 0, refused |-> FALSE]

Init ==
    /\ Mounted
    /\ limits = [engines |-> MaxEngines, awaits |-> MaxAwaits, timers |-> MaxTimers]

\* The same start, with room for one more engine and one more awaited promise.
InitOverlap ==
    /\ Mounted
    /\ limits = [engines |-> MaxEngines + 1, awaits |-> MaxAwaits + 1, timers |-> MaxTimers]

PendingInits == {t \in tasks : t.kind = "initializeWebRTC"}

\* Room for one more awaited promise, one more armed timer.
CanAwait(ts) == Cardinality({t \in ts : t.step # "timer"}) < limits.awaits
CanArm(ts) == Cardinality({t \in ts : t.step = "timer"}) < limits.timers

----------------------------------------------------------------------------
(* Default ICE servers: the fetch started on mount completes or fails.     *)

\* What fetch('/api/ice') comes to: TRUE when the server answers with its list.
Responses == BOOLEAN
Answered == {TRUE}

\* The list the server answers with, and the three STUN servers of the catch block.
ApiServers == <<Server("turn:api.example.org:3478", "string", TRUE)>>
FallbackServers ==
    <<Server("stun:stun.l.google.com:19302", "string", FALSE),
      Server("stun:stun1.l.google.com:19302", "string", FALSE),
      Server("stun:stun2.l.google.com:19302", "string", FALSE)>>

\* A fetchDefaultIceServers call runs on from its await: the list is stored, or the
\* fallback list when the fetch failed, and the loading flag is dropped.
fetchDefaultIceServersDone(responses) ==
    /\ fetches > 0
    /\ \E ok \in responses :
         /\ messages' = IF ok
                        THEN addMessage(NoMessages, "system",
                                        "Loaded " \o ToString(Len(ApiServers))
                                            \o " default ICE server(s)", FALSE)
                        ELSE addMessage(addMessage(NoMessages, "error",
                                           "Failed to load default ICE servers", FALSE),
                                        "system", "Using fallback STUN servers", FALSE)
         /\ iceServers' = IF ok THEN ApiServers ELSE FallbackServers
    /\ iceServersLoading' = FALSE
    /\ fetches' = fetches - 1
    /\ UNCHANGED <<limits, usingCustomIceServers, customIceServersText,
                   customIceServersError, showCustomIceConfig, applied>>
    /\ last' = Step("fetchDefaultIceServers")
    /\ UNCHANGED <<session, engines, tasks, delivered>>

\* What is typed into the custom-servers box.
CustomTexts ==
    {BlankText, JunkText, JsonText(FALSE, NoServers),
     JsonText(TRUE, <<Server("", "missing", FALSE)>>),
     JsonText(TRUE, <<Server("stun:b.example.org:3478", "string", FALSE),
                      Server("7", "other", FALSE)>>),
     JsonText(TRUE, <<Server("turn:a.example.org:3478", "string", TRUE)>>),
     JsonText(TRUE, <<Server("stun:b.example.org:3478", "string", FALSE)>>)}

\* applyCustomIceServers accepts the text: it parses to an array each of whose
\* servers has urls that are a string or an array.
ValidCustomText(text) ==
    /\ text.kind = "json"
    /\ text.array
    /\ \A i \in DOMAIN text.servers : text.servers[i].shape \in {"string", "array"}

\* The entries applyCustomIceServers appends for the servers it applied.
AppliedEntries(servers) ==
    <<Msg("system", "Applied " \o ToString(Len(servers)) \o " custom ICE server(s)", FALSE)>>
    \o [i \in DOMAIN servers |->
          Msg("ice-debug",
              "   Server " \o ToString(i) \o ": " \o servers[i].urls
                  \o (IF servers[i].username THEN " (with credentials)" ELSE ""),
              FALSE)]

setShowCustomIceConfig ==
    /\ showCustomIceConfig' = ~showCustomIceConfig
    /\ messages' = NoMessages
    /\ last' = Step("setShowCustomIceConfig")
    /\ UNCHANGED <<iceServers, usingCustomIceServers, customIceServersText,
                   customIceServersError, fetches, applied>>
    /\ UNCHANGED <<session, iceServersLoading, engines, tasks, limits, delivered>>

setCustomIceServersText ==
    \E text \in CustomTexts :
        /\ customIceServersText' = text
        /\ messages' = NoMessages
        /\ last' = Step("setCustomIceServersText")
        /\ UNCHANGED <<iceServers, usingCustomIceServers, customIceServersError,
                       showCustomIceConfig, fetches, applied>>
        /\ UNCHANGED <<session, iceServersLoading, engines, tasks, limits, delivered>>

\* applyCustomIceServers; the effect on usingCustomIceServers that follows it
\* starts no fetch, the flag being set.
applyCustomIceServers ==
    /\ IF customIceServersText.kind = "blank"
       THEN /\ customIceServersError' = "Please enter ICE servers configuration"
            /\ messages' = NoMessages
            /\ UNCHANGED <<iceServers, usingCustomIceServers, showCustomIceConfig, applied>>
       ELSE IF ~ValidCustomText(customIceServersText)
       THEN /\ customIceServersError' = "Invalid JSON or structure"
            /\ messages' = NoMessages
            /\ UNCHANGED <<iceServers, usingCustomIceServers, showCustomIceConfig, applied>>
       ELSE /\ customIceServersError' = ""
            /\ iceServers' = customIceServersText.servers
            /\ usingCustomIceServers' = TRUE
            /\ showCustomIceConfig' = FALSE
            /\ applied' = customIceServersText.servers
            /\ messages' = AppliedEntries(customIceServersText.servers)
    /\ last' = Step("applyCustomIceServers")
    /\ UNCHANGED <<customIceServersText, fetches>>
    /\ UNCHANGED <<session, iceServersLoading, engines, tasks, limits, delivered>>

\* resetToDefaultIceServers up to the await of its fetch, and the effect on
\* usingCustomIceServers that follows it: when the flag was set, the effect calls
\* fetchDefaultIceServers once more.
resetToDefaultIceServers ==
    LET calls == IF usingCustomIceServers THEN 2 ELSE 1
        m1    == addMessage(NoMessages, "system", "Loading default ICE servers...", FALSE)
    IN
    /\ fetches + calls <= MaxFetches
    /\ usingCustomIceServers' = FALSE
    /\ customIceServersText' = BlankText
    /\ customIceServersError' = ""
    /\ iceServersLoading' = TRUE
    /\ fetches' = fetches + calls
    /\ messages' = IF calls = 2
                   THEN addMessage(m1, "system", "Loading default ICE servers...", FALSE)
                   ELSE m1
    /\ last' = Step("resetToDefaultIceServers")
    /\ UNCHANGED <<iceServers, showCustomIceConfig, applied>>
    /\ UNCHANGED <<session, engines, tasks, limits, delivered>>

----------------------------------------------------------------------------
(* Media permission.                                                       *)

\* requestMediaPermissions up to its await: the stream after the synchronous part.
requestMediaPermissionsStart(ms, stale) ==
    addMessage(ms, "system", "Requesting microphone permission", stale)

\* requestMediaPermissions after getUserMedia settled: the stream.
requestMediaPermissionsEnd(ms, granted, stale) ==
    IF granted
    THEN addMessage(addMessage(ms, "system", "Microphone permission granted", stale),
                    "system", "Audio muted", stale)
    ELSE addMessage(addMessage(ms, "error", "Media permission denied", stale),
                    "system", "Note: Data channels may still work", stale)

\* The 'Grant Microphone Permission' button, shown while the state is 'none'.
requestMediaPermissionsClick ==
    /\ mediaPermissionState = "none"
    /\ CanAwait(tasks)
    /\ mediaPermissionState' = "requesting"
    /\ messages' = requestMediaPermissionsStart(NoMessages, FALSE)
    /\ tasks' = tasks \cup {Task("requestMediaPermissions", "getUserMedia", Null, FALSE,
                                 NoArg, FALSE)}
    /\ UNCHANGED <<limits, iceConfig>>
    /\ last' = Step("requestMediaPermissions")
    /\ UNCHANGED <<peerConnection, dataChannel, localStream, localCandidates,
                   remoteCandidates, candidatePairs, isInitiator, localOffer, localAnswer,
                   remoteOffer, remoteAnswer, iceServersLoading, engines, delivered>>

\* getUserMedia of the button's request settles.
requestMediaPermissionsResume ==
    \E t \in tasks, granted \in BOOLEAN :
        /\ t.kind = "requestMediaPermissions"
        /\ tasks' = tasks \ {t}
        /\ localStream' = (IF granted THEN TRUE ELSE localStream)
        /\ mediaPermissionState' = (IF granted THEN "granted" ELSE "denied")
        /\ messages' = requestMediaPermissionsEnd(NoMessages, granted, t.stale)
        /\ UNCHANGED <<limits, iceConfig>>
        /\ last' = Step("requestMediaPermissions.resume")
        /\ UNCHANGED <<peerConnection, dataChannel, localCandidates, remoteCandidates,
                       candidatePairs, isInitiator, localOffer, localAnswer, remoteOffer,
                       remoteAnswer, iceServersLoading, engines, delivered>>

----------------------------------------------------------------------------
(* initializeWebRTC.                                                       *)

\* The call of initializeWebRTC's try block that throws, if any.
Faults == {"none", "constructor", "addTrack", "createDataChannel"}
NoFaults == {"none"}

\* initializeWebRTC from `new RTCPeerConnection` to its end, with the media
\* result, the stream held and the event stream as they are at that point.
\* fault: the call that throws, if any; the catch only reports it.
InitializeBody(asInitiator, mediaGranted, stream, ms, stale, fault) ==
    LET n       == Len(engines) + 1
        caught  == addMessage(ms, "error", "Error initializing WebRTC", stale)
        m1      == addMessage(ms, "ice-debug", "Initialized WebRTC", stale)
        tracked == stream /\ mediaGranted
        m2      == IF tracked THEN addMessage(m1, "ice-debug", "Added media tracks", stale)
                   ELSE m1
        wired   == [NewEngine EXCEPT !.wired = TRUE]
    IN
    IF fault = "constructor"
    THEN /\ messages' = caught
         /\ UNCHANGED <<peerConnection, dataChannel, isInitiator, engines>>
    ELSE /\ n <= limits.engines
         /\ peerConnection' = n
         /\ IF fault = "addTrack"
            THEN /\ tracked
                 /\ engines' = Append(engines, NewEngine)
                 /\ messages' = addMessage(m1, "error", "Error initializing WebRTC", stale)
                 /\ UNCHANGED <<dataChannel, isInitiator>>
            ELSE /\ isInitiator' = asInitiator
                 /\ IF asInitiator
                    THEN IF fault = "createDataChannel"
                         THEN /\ engines' = Append(engines, wired)
                              /\ messages' = addMessage(m2, "error",
                                                 "Error initializing WebRTC", stale)
                              /\ UNCHANGED dataChannel
                         ELSE /\ engines' = Append(engines, [wired EXCEPT !.channel = "open"])
                              /\ dataChannel' = n
                              /\ messages' = addMessage(m2, "system",
                                                 "Initialized as initiator", stale)
                    ELSE /\ fault = "none"
                         /\ engines' = Append(engines, [wired EXCEPT !.ondatachannel = TRUE])
                         /\ messages' = addMessage(m2, "system", "Initialized as receiver", stale)
                         /\ UNCHANGED dataChannel

\* initializeWebRTC(asInitiator) up to its first await, or to its end when the
\* media permission was requested before.
initializeWebRTC(faults) ==
    \E asInitiator \in BOOLEAN :
        /\ Len(engines) + Cardinality(PendingInits) < limits.engines
        /\ localCandidates' = EmptyMap
        /\ remoteCandidates' = EmptyMap
        /\ candidatePairs' = EmptyMap
        /\ delivered' = {}
        /\ UNCHANGED <<limits, iceConfig>>
        /\ last' = Step("initializeWebRTC")
        /\ IF mediaPermissionState = "none"
           THEN /\ CanAwait(tasks)
                /\ mediaPermissionState' = "requesting"
                /\ messages' = requestMediaPermissionsStart(NoMessages, FALSE)
                /\ tasks' = tasks \cup {Task("initializeWebRTC", "getUserMedia", Null,
                                             asInitiator, NoArg, FALSE)}
                /\ UNCHANGED <<peerConnection, dataChannel, isInitiator, engines>>
           ELSE /\ \E fault \in faults :
                      InitializeBody(asInitiator, mediaPermissionState = "granted",
                                     localStream, NoMessages, FALSE, fault)
                /\ UNCHANGED <<mediaPermissionState, tasks>>
        /\ UNCHANGED <<localStream, localOffer, localAnswer, remoteOffer, remoteAnswer,
                       iceServersLoading>>

\* getUserMedia of a suspended initializeWebRTC settles and the handler runs on.
initializeWebRTCResume(faults) ==
    \E t \in tasks, granted \in BOOLEAN, fault \in faults :
        /\ t.kind = "initializeWebRTC"
        /\ tasks' = tasks \ {t}
        /\ localStream' = (IF granted THEN TRUE ELSE localStream)
        /\ mediaPermissionState' = (IF granted THEN "granted" ELSE "denied")
        /\ InitializeBody(t.role, granted, localStream',
                          requestMediaPermissionsEnd(NoMessages, granted, t.stale), t.stale, fault)
        /\ UNCHANGED <<limits, iceConfig>>
        /\ last' = [Step("initializeWebRTC.resume") EXCEPT
                        !.run = IF last.run = 2 /\ ~t.stale THEN 3 ELSE 0]
        /\ UNCHANGED <<localCandidates, remoteCandidates, candidatePairs, localOffer,
                       localAnswer, remoteOffer, remoteAnswer, iceServersLoading,
                       delivered>>

----------------------------------------------------------------------------
(* reset.                                                                  *)

\* RTCPeerConnection.close(): the engine and its channel are closed and no event
\* fires any more; what the closed engine held is out of the page's reach.
Close(es, n) ==
    IF n = Null THEN es
    ELSE [es EXCEPT ![n] = [closed |-> TRUE, wired |-> FALSE, sig |-> "closed",
                            local |-> None, remote |-> None, ice |-> "closed",
                            conn |-> "closed",
                            channel |-> IF @.channel = None THEN None ELSE "closed",
                            ondatachannel |-> FALSE, gathering |-> @.gathering]]

\* RTCDataChannel.close() on the channel of engine n.
CloseChannel(es, n) ==
    IF n = Null THEN es ELSE [es EXCEPT ![n].channel = "closed"]

\* reset without `dataChannel.current = null`.
resetKeepingChannel ==
    /\ engines' = CloseChannel(Close(engines, peerConnection), dataChannel)
    /\ localStream' = FALSE
    /\ peerConnection' = Null
    /\ localCandidates' = EmptyMap
    /\ remoteCandidates' = EmptyMap
    /\ candidatePairs' = EmptyMap
    /\ localOffer' = NoText
    /\ localAnswer' = NoText
    /\ remoteOffer' = NoText
    /\ remoteAnswer' = NoText
    /\ messages' = addMessage(NoMessages, "system", "Reset connection", FALSE)
    /\ isInitiator' = FALSE
    /\ mediaPermissionState' = "none"
    /\ delivered' = {}
    /\ UNCHANGED <<limits, iceConfig>>
    /\ last' = Step("reset")
    /\ tasks' = {[t EXCEPT !.stale = TRUE] : t \in tasks}
    /\ UNCHANGED <<iceServersLoading, dataChannel>>

\* The statements of reset() that act on the engine, the channel, the stream, the
\* refs, the maps and the event stream, in source order.
resetStatements ==
    <<"peerConnection.current.close()", "dataChannel.current.close()",
      "cleanupMediaStream()", "peerConnection.current = null",
      "dataChannel.current = null", "localCandidates.current.clear()",
      "remoteCandidates.current.clear()", "candidatePairs.current.clear()",
      "setMessages([])", "addMessage('Reset connection')">>

\* One statement of reset() on st, the values the handler works on; done lists the
\* statements that took effect (a close() behind a null ref does not run).
ResetStatement(st, e) ==
    LET did == [st EXCEPT !.done = Append(@, e)] IN
    CASE e = "peerConnection.current.close()" ->
            IF st.pc = Null THEN st ELSE [did EXCEPT !.engines = Close(@, st.pc)]
      [] e = "dataChannel.current.close()" ->
            IF st.dc = Null THEN st ELSE [did EXCEPT !.engines = CloseChannel(@, st.dc)]
      [] e = "cleanupMediaStream()" ->
            IF ~st.stream THEN st
            ELSE [did EXCEPT !.stream = FALSE,
                             !.ms = addMessage(@, "system", "Released microphone", FALSE)]
      [] e = "peerConnection.current = null"     -> [did EXCEPT !.pc = Null]
      [] e = "dataChannel.current = null"        -> [did EXCEPT !.dc = Null]
      [] e = "localCandidates.current.clear()"   -> [did EXCEPT !.lc = EmptyMap]
      [] e = "remoteCandidates.current.clear()"  -> [did EXCEPT !.rc = EmptyMap]
      [] e = "candidatePairs.current.clear()"    -> [did EXCEPT !.cp = EmptyMap]
      [] e = "setMessages([])"                   -> [st EXCEPT !.ms = NoMessages]
      [] e = "addMessage('Reset connection')" ->
            [st EXCEPT !.ms = addMessage(@, "system", "Reset connection", FALSE)]

RECURSIVE ResetStatements(_, _)
ResetStatements(st, es) ==
    IF es = <<>> THEN st ELSE ResetStatements(ResetStatement(st, Head(es)), Tail(es))

\* reset() running the statements es; shown: the entries the event stream holds
\* when the statements start.
resetWith(es, shown) ==
    LET st == ResetStatements([pc |-> peerConnection, dc |-> dataChannel,
                               stream |-> localStream, engines |-> engines,
                               lc |-> localCandidates, rc |-> remoteCandidates,
                               cp |-> candidatePairs, ms |-> shown, done |-> <<>>], es)
    IN
    /\ engines' = st.engines
    /\ localStream' = st.stream
    /\ peerConnection' = st.pc
    /\ dataChannel' = st.dc
    /\ localCandidates' = st.lc
    /\ remoteCandidates' = st.rc
    /\ candidatePairs' = st.cp
    /\ localOffer' = NoText
    /\ localAnswer' = NoText
    /\ remoteOffer' = NoText
    /\ remoteAnswer' = NoText
    /\ messages' = st.ms
    /\ isInitiator' = FALSE
    /\ mediaPermissionState' = "none"
    /\ delivered' = {}
    /\ UNCHANGED <<limits, iceConfig>>
    /\ last' = [Step("reset") EXCEPT !.effects = st.done]
    /\ tasks' = {[t EXCEPT !.stale = TRUE] : t \in tasks}
    /\ UNCHANGED iceServersLoading

\* reset with the refs dropped and the maps cleared before the close() calls.
resetDroppingFirst ==
    resetWith(<<"peerConnection.current = null", "dataChannel.current = null",
               "localCandidates.current.clear()", "remoteCandidates.current.clear()",
               "candidatePairs.current.clear()", "peerConnection.current.close()",
               "dataChannel.current.close()", "cleanupMediaStream()",
               "setMessages([])", "addMessage('Reset connection')">>, messages)

\* reset without `setMessages([])`.
resetKeepingMessages ==
    resetWith(SelectSeq(resetStatements, LAMBDA e : e # "setMessages([])"), messages)

reset ==
    resetWith(resetStatements, messages)

----------------------------------------------------------------------------
(* Texts of the description boxes, and descriptions.                       *)

\* The engine of the other peer, as the maker of a description: a number no
\* engine of this page has.
Peer == MaxEngines + 2

Junk      == [kind |-> "junk", value |-> NoArg]

\* JSON.stringify of a session description.
Stringify(d) == [kind |-> "json", value |-> d]

\* text.trim() is empty.
Blank(text) == text.kind = "empty"

\* JSON.parse: throws on text that is not JSON.
ParseThrows(text) == text.kind # "json"
Parse(text) == text.value

Description(type, by) == [type |-> type, by |-> by]

\* What a user pastes into a box: the peer's description, or text that is not JSON.
PastedOffers == {Junk, Stringify(Description("offer", Peer))}

PastedAnswers == {Junk, Stringify(Description("answer", Peer))}

\* The engine's own checks of setLocalDescription / setRemoteDescription /
\* createOffer / createAnswer (W3C WebRTC, section 4.4.1): n is the engine's number.
CanCreateOffer(n) == ~engines[n].closed /\ engines[n].sig \in {"stable", "have-local-offer"}

CanCreateAnswer(n) == ~engines[n].closed /\ engines[n].sig = "have-remote-offer"

CanSetLocal(n, d) ==
    /\ ~engines[n].closed
    /\ d.by = n
    /\ \/ d.type = "offer" /\ engines[n].sig \in {"stable", "have-local-offer"}
       \/ d.type = "answer" /\ engines[n].sig = "have-remote-offer"

CanSetRemote(n, d) ==
    /\ ~engines[n].closed
    /\ d.by = Peer
    /\ \/ d.type = "offer" /\ engines[n].sig \in {"stable", "have-remote-offer"}
       \/ d.type = "answer" /\ engines[n].sig = "have-local-offer"

SetLocal(es, n, d) ==
    [es EXCEPT ![n] = [@ EXCEPT !.local = d.type,
                                !.sig = IF d.type = "offer" THEN "have-local-offer"
                                        ELSE "stable"]]

SetRemote(es, n, d) ==
    [es EXCEPT ![n] = [@ EXCEPT !.remote = d.type,
                                !.sig = IF d.type = "offer" THEN "have-remote-offer"
                                        ELSE "stable"]]

\* A promise of an engine that was closed meanwhile: it rejects, or never settles.
\* The continuation of a promise that never settles is dropped without a trace.
abandon ==
    \E t \in tasks :
        /\ t.eng # Null
        /\ engines[t.eng].closed
        /\ t.step # "getStats"
        /\ tasks' = tasks \ {t}
        /\ messages' = NoMessages
        /\ UNCHANGED <<limits, iceConfig>>
        /\ last' = Step("abandon")
        /\ UNCHANGED <<session, iceServersLoading, engines, delivered>>

----------------------------------------------------------------------------
(* createOffer.                                                            *)

\* createOffer with a catch that reports nothing.
createOfferSilent ==
    /\ UNCHANGED <<limits, iceConfig>>
    /\ last' = Step("createOffer")
    /\ IF peerConnection = Null
       THEN /\ messages' = NoMessages
            /\ UNCHANGED tasks
       ELSE /\ CanAwait(tasks)
            /\ messages' = addMessage(NoMessages, "system", "Creating connection offer", FALSE)
            /\ tasks' = tasks \cup {Task("createOffer", "createOffer", peerConnection, FALSE,
                                         NoArg, FALSE)}
    /\ UNCHANGED <<session, iceServersLoading, engines, delivered>>

\* createOffer up to `await peerConnection.current.createOffer()`.
createOffer ==
    /\ UNCHANGED <<limits, iceConfig>>
    /\ last' = Step("createOffer")
    /\ IF peerConnection = Null
       THEN /\ messages' = addMessage(NoMessages, "error", "Error creating offer", FALSE)
            /\ UNCHANGED tasks
       ELSE /\ CanAwait(tasks)
            /\ messages' = addMessage(NoMessages, "system", "Creating connection offer", FALSE)
            /\ tasks' = tasks \cup {Task("createOffer", "createOffer", peerConnection, FALSE,
                                         NoArg, FALSE)}
    /\ UNCHANGED <<session, iceServersLoading, engines, delivered>>

\* The offer is made (or refused), and the handler runs on to
\* `await peerConnection.current.setLocalDescription(offer)`.
createOfferMade ==
    \E t \in tasks :
        /\ t.kind = "createOffer" /\ t.step = "createOffer"
        /\ UNCHANGED <<limits, iceConfig>>
        /\ last' = Step("createOffer.made")
        /\ IF CanCreateOffer(t.eng) /\ peerConnection # Null
           THEN /\ messages' = addMessage(NoMessages, "system",
                                          "Setting up local connection details", t.stale)
                /\ tasks' = (tasks \ {t}) \cup
                            {Task("createOffer", "setLocalDescription", peerConnection, FALSE,
                                  Description("offer", t.eng), t.stale)}
           ELSE /\ messages' =
                     IF CanCreateOffer(t.eng)
                     THEN addMessage(addMessage(NoMessages, "system",
                                         "Setting up local connection details", t.stale),
                                     "error", "Error creating offer", t.stale)
                     ELSE addMessage(NoMessages, "error", "Error creating offer", t.stale)
                /\ tasks' = tasks \ {t}
        /\ UNCHANGED <<session, iceServersLoading, engines, delivered>>

\* setLocalDescription(offer) settles; on success the grace timer is armed.
createOfferSet ==
    \E t \in tasks :
        /\ t.kind = "createOffer" /\ t.step = "setLocalDescription"
        /\ UNCHANGED <<limits, iceConfig>>
        /\ last' = Step("createOffer.set")
        /\ IF CanSetLocal(t.eng, t.arg)
           THEN /\ CanArm(tasks)
                /\ engines' = SetLocal(engines, t.eng, t.arg)
                /\ tasks' = (tasks \ {t}) \cup
                            {Task("createOffer", "timer", Null, FALSE, NoArg, t.stale)}
                /\ messages' = NoMessages
           ELSE /\ messages' = addMessage(NoMessages, "error", "Error creating offer", t.stale)
                /\ tasks' = tasks \ {t}
                /\ UNCHANGED engines
        /\ UNCHANGED <<session, iceServersLoading, delivered>>

\* The grace timer of createOffer fires.
createOfferTimer ==
    \E t \in tasks :
        /\ t.kind = "createOffer" /\ t.step = "timer"
        /\ tasks' = tasks \ {t}
        /\ UNCHANGED <<limits, iceConfig>>
        /\ last' = Step("createOffer.timer")
        /\ IF peerConnection # Null /\ engines[peerConnection].local # None
           THEN /\ localOffer' = Stringify(Description(engines[peerConnection].local,
                                                       peerConnection))
                /\ messages' = addMessage(NoMessages, "system", "Offer ready", t.stale)
           ELSE /\ messages' = NoMessages
                /\ UNCHANGED localOffer
        /\ UNCHANGED <<peerConnection, dataChannel, localStream, localCandidates,
                       remoteCandidates, candidatePairs, isInitiator, localAnswer,
                       remoteOffer, remoteAnswer, mediaPermissionState, iceServersLoading,
                       engines, delivered>>

----------------------------------------------------------------------------
(* handleRemoteOffer.                                                      *)

setRemoteOffer ==
    \E text \in PastedOffers :
        /\ remoteOffer' = text
        /\ messages' = NoMessages
        /\ UNCHANGED <<limits, iceConfig>>
        /\ last' = Step("setRemoteOffer")
        /\ UNCHANGED <<peerConnection, dataChannel, localStream, localCandidates,
                       remoteCandidates, candidatePairs, isInitiator, localOffer, localAnswer,
                       remoteAnswer, mediaPermissionState, iceServersLoading,
                       engines, tasks, delivered>>

\* handleRemoteOffer handing the text to the engine without JSON.parse.
handleRemoteOfferUnparsed ==
    LET m1 == addMessage(NoMessages, "system", "Processing connection offer", FALSE) IN
    /\ UNCHANGED <<limits, iceConfig>>
    /\ last' = [Step("handleRemoteOffer") EXCEPT
                    !.refused = @ \/ (peerConnection # Null /\ ~Blank(remoteOffer)
                                      /\ ParseThrows(remoteOffer))]
    /\ IF peerConnection = Null \/ Blank(remoteOffer)
       THEN /\ messages' = addMessage(m1, "error", "Error handling remote offer", FALSE)
            /\ UNCHANGED tasks
       ELSE /\ CanAwait(tasks)
            /\ messages' = addMessage(m1, "system", "Understanding peer's connection details",
                                      FALSE)
            /\ tasks' = tasks \cup {Task("handleRemoteOffer", "setRemoteDescription",
                                         peerConnection, FALSE, Parse(remoteOffer), FALSE)}
    /\ UNCHANGED <<session, iceServersLoading, engines, delivered>>

\* handleRemoteOffer up to `await peerConnection.current.setRemoteDescription(offer)`.
handleRemoteOffer ==
    LET m1 == addMessage(NoMessages, "system", "Processing connection offer", FALSE) IN
    /\ UNCHANGED <<limits, iceConfig>>
    /\ last' = [Step("handleRemoteOffer") EXCEPT
                    !.refused = @ \/ (peerConnection # Null /\ ~Blank(remoteOffer)
                                      /\ ParseThrows(remoteOffer))]
    /\ IF peerConnection = Null \/ Blank(remoteOffer) \/ ParseThrows(remoteOffer)
       THEN /\ messages' = addMessage(m1, "error", "Error handling remote offer", FALSE)
            /\ UNCHANGED tasks
       ELSE /\ CanAwait(tasks)
            /\ messages' = addMessage(m1, "system", "Understanding peer's connection details",
                                      FALSE)
            /\ tasks' = tasks \cup {Task("handleRemoteOffer", "setRemoteDescription",
                                         peerConnection, FALSE, Parse(remoteOffer), FALSE)}
    /\ UNCHANGED <<session, iceServersLoading, engines, delivered>>

\* setRemoteDescription(offer) settles, and the handler runs on to
\* `await peerConnection.current.createAnswer()`.
handleRemoteOfferApplied ==
    \E t \in tasks :
        /\ t.kind = "handleRemoteOffer" /\ t.step = "setRemoteDescription"
        /\ UNCHANGED <<limits, iceConfig>>
        /\ last' = Step("handleRemoteOffer.applied")
        /\ IF CanSetRemote(t.eng, t.arg)
           THEN /\ engines' = SetRemote(engines, t.eng, t.arg)
                /\ IF peerConnection # Null
                   THEN /\ messages' = addMessage(NoMessages, "system",
                                                  "Creating response (answer)", t.stale)
                        /\ tasks' = (tasks \ {t}) \cup
                                    {Task("handleRemoteOffer", "createAnswer", peerConnection,
                                          FALSE, NoArg, t.stale)}
                   ELSE /\ messages' = addMessage(addMessage(NoMessages, "system",
                                                      "Creating response (answer)", t.stale),
                                                  "error", "Error handling remote offer", t.stale)
                        /\ tasks' = tasks \ {t}
           ELSE /\ messages' = addMessage(NoMessages, "error", "Error handling remote offer",
                                          t.stale)
                /\ tasks' = tasks \ {t}
                /\ UNCHANGED engines
        /\ UNCHANGED <<session, iceServersLoading, delivered>>

\* createAnswer settles, and the handler runs on to
\* `await peerConnection.current.setLocalDescription(answer)`.
handleRemoteOfferAnswered ==
    \E t \in tasks :
        /\ t.kind = "handleRemoteOffer" /\ t.step = "createAnswer"
        /\ UNCHANGED <<limits, iceConfig>>
        /\ last' = Step("handleRemoteOffer.answered")
        /\ IF CanCreateAnswer(t.eng) /\ peerConnection # Null
           THEN /\ tasks' = (tasks \ {t}) \cup
                            {Task("handleRemoteOffer", "setLocalDescription", peerConnection,
                                  FALSE, Description("answer", t.eng), t.stale)}
                /\ messages' = NoMessages
           ELSE /\ messages' = addMessage(NoMessages, "error", "Error handling remote offer",
                                          t.stale)
                /\ tasks' = tasks \ {t}
        /\ UNCHANGED <<session, iceServersLoading, engines, delivered>>

\* setLocalDescription(answer) settles; on success the grace timer is armed.
handleRemoteOfferSet ==
    \E t \in tasks :
        /\ t.kind = "handleRemoteOffer" /\ t.step = "setLocalDescription"
        /\ UNCHANGED <<limits, iceConfig>>
        /\ last' = Step("handleRemoteOffer.set")
        /\ IF CanSetLocal(t.eng, t.arg)
           THEN /\ CanArm(tasks)
                /\ engines' = SetLocal(engines, t.eng, t.arg)
                /\ tasks' = (tasks \ {t}) \cup
                            {Task("handleRemoteOffer", "timer", Null, FALSE, NoArg, t.stale)}
                /\ messages' = NoMessages
           ELSE /\ messages' = addMessage(NoMessages, "error", "Error handling remote offer",
                                          t.stale)
                /\ tasks' = tasks \ {t}
                /\ UNCHANGED engines
        /\ UNCHANGED <<session, iceServersLoading, delivered>>

\* The grace timer of handleRemoteOffer fires.
handleRemoteOfferTimer ==
    \E t \in tasks :
        /\ t.kind = "handleRemoteOffer" /\ t.step = "timer"
        /\ tasks' = tasks \ {t}
        /\ UNCHANGED <<limits, iceConfig>>
        /\ last' = Step("handleRemoteOffer.timer")
        /\ IF peerConnection # Null /\ engines[peerConnection].local # None
           THEN /\ localAnswer' = Stringify(Description(engines[peerConnection].local,
                                                        peerConnection))
                /\ messages' = addMessage(NoMessages, "system", "Answer ready", t.stale)
           ELSE /\ messages' = NoMessages
                /\ UNCHANGED localAnswer
        /\ UNCHANGED <<peerConnection, dataChannel, localStream, localCandidates,
                       remoteCandidates, candidatePairs, isInitiator, localOffer,
                       remoteOffer, remoteAnswer, mediaPermissionState, iceServersLoading,
                       engines, delivered>>

----------------------------------------------------------------------------
(* handleRemoteAnswer.                                                     *)

setRemoteAnswer ==
    \E text \in PastedAnswers :
        /\ remoteAnswer' = text
        /\ messages' = NoMessages
        /\ UNCHANGED <<limits, iceConfig>>
        /\ last' = Step("setRemoteAnswer")
        /\ UNCHANGED <<peerConnection, dataChannel, localStream, localCandidates,
                       remoteCandidates, candidatePairs, isInitiator, localOffer, localAnswer,
                       remoteOffer, mediaPermissionState, iceServersLoading,
                       engines, tasks, delivered>>

\* handleRemoteAnswer up to `await peerConnection.current.setRemoteDescription(answer)`.
handleRemoteAnswer ==
    LET m1 == addMessage(NoMessages, "system", "Processing answer", FALSE) IN
    /\ UNCHANGED <<limits, iceConfig>>
    /\ last' = Step("handleRemoteAnswer")
    /\ IF peerConnection = Null \/ Blank(remoteAnswer) \/ ParseThrows(remoteAnswer)
       THEN /\ messages' = addMessage(m1, "error", "Error handling remote answer", FALSE)
            /\ UNCHANGED tasks
       ELSE /\ CanAwait(tasks)
            /\ messages' = addMessage(m1, "system", "Applying peer's response", FALSE)
            /\ tasks' = tasks \cup {Task("handleRemoteAnswer", "setRemoteDescription",
                                         peerConnection, FALSE, Parse(remoteAnswer), FALSE)}
    /\ UNCHANGED <<session, iceServersLoading, engines, delivered>>

\* setRemoteDescription(answer) settles.
handleRemoteAnswerApplied ==
    \E t \in tasks :
        /\ t.kind = "handleRemoteAnswer" /\ t.step = "setRemoteDescription"
        /\ tasks' = tasks \ {t}
        /\ UNCHANGED <<limits, iceConfig>>
        /\ last' = Step("handleRemoteAnswer.applied")
        /\ IF CanSetRemote(t.eng, t.arg)
           THEN /\ engines' = SetRemote(engines, t.eng, t.arg)
                /\ messages' = addMessage(NoMessages, "system", "Handshake complete", t.stale)
           ELSE /\ messages' = addMessage(NoMessages, "error", "Error handling remote answer",
                                          t.stale)
                /\ UNCHANGED engines
        /\ UNCHANGED <<session, iceServersLoading, delivered>>

----------------------------------------------------------------------------
(* Local candidates.                                                       *)

\* An RTCIceCandidate: its candidate string split at the spaces, and the
\* attributes the handler reads.
Candidate(foundation, priority, port, type) ==
    [candidate  |-> <<"candidate:" \o foundation, "1", "UDP", priority, "192.0.2.1", port,
                      "typ", type>>,
     type       |-> type,
     foundation |-> foundation]

\* A candidate property that is no string: candidate.candidate.split raises.
NoString == << >>

\* The end-of-candidates indication some engines deliver: an empty candidate string.
EndOfCandidates == [candidate |-> <<"">>, type |-> "", foundation |-> ""]

\* The candidates an engine may discover; the first and the third share a foundation.
Candidates ==
    {Candidate("1", "2130706431", "50000", "host"),
     Candidate("2", "1694498815", "50001", "srflx"),
     Candidate("1", "2130706430", "50002", "host")}

\* The candidates of a longer gathering: a server-reflexive one, two host ones of
\* different foundations, two from an engine whose candidates carry no foundation
\* property, and one whose candidate property is no string.
GatheredCandidates ==
    {Candidate("2", "1694498815", "50001", "srflx"),
     Candidate("1", "2130706431", "50000", "host"),
     Candidate("3", "2130706430", "50003", "host"),
     [Candidate("4", "2130706431", "50004", "host") EXCEPT !.foundation = None],
     [Candidate("5", "1694498815", "50005", "srflx") EXCEPT !.foundation = None],
     [Candidate("6", "2130706431", "50000", "host") EXCEPT !.candidate = NoString]}

Numeral ==
    [s \in {"2130706431", "1694498815", "2130706430", "50000", "50001", "50002", "50003",
            "50004", "50005"} |->
        CASE s = "2130706431" -> 2130706431
          [] s = "1694498815" -> 1694498815
          [] s = "2130706430" -> 2130706430
          [] s = "50000" -> 50000
          [] s = "50001" -> 50001
          [] s = "50002" -> 50002
          [] s = "50003" -> 50003
          [] s = "50004" -> 50004
          [] s = "50005" -> 50005]

\* parseInt(s) || 0
ParseIntOr0(s) == IF s \in DOMAIN Numeral THEN Numeral[s] ELSE 0

\* s.toLowerCase() || 'unknown'
LowerOrUnknown(s) ==
    CASE s = "UDP" -> "udp"
      [] s = "TCP" -> "tcp"
      [] s = ""    -> "unknown"
      [] OTHER     -> s

OrUnknown(s) == IF s = "" THEN "unknown" ELSE s

NoInfo == [candidate |-> << >>, type |-> None, protocol |-> None, address |-> None,
           port |-> 0, priority |-> 0, foundation |-> None]

\* The try block of parseICECandidate raises on this candidate.
ParseRaises(c) == c.candidate = NoString

\* parseICECandidate: NoInfo stands for null, returned by the catch block and for
\* a candidate string of fewer than six parts.
parseICECandidate(c) ==
    LET parts == c.candidate IN
    IF ParseRaises(c) THEN NoInfo
    ELSE IF Len(parts) < 6 THEN NoInfo
    ELSE [candidate  |-> c.candidate,
          type       |-> OrUnknown(c.type),
          protocol   |-> LowerOrUnknown(parts[3]),
          address    |-> OrUnknown(parts[5]),
          port       |-> ParseIntOr0(parts[6]),
          priority   |-> ParseIntOr0(parts[4]),
          foundation |-> OrUnknown(parts[1])]

\* s.toUpperCase()
UpperCase(s) ==
    CASE s = "udp" -> "UDP"
      [] s = "tcp" -> "TCP"
      [] s = "host" -> "HOST"
      [] s = "srflx" -> "SRFLX"
      [] s = "prflx" -> "PRFLX"
      [] s = "relay" -> "RELAY"
      [] OTHER     -> s

\* The entry onicecandidate appends for a candidate that parses.
FoundLocalCandidate(info) ==
    "Found local candidate: " \o info.type \o " (" \o UpperCase(info.protocol) \o ") "
        \o info.address \o ":" \o ToString(info.port)

\* An engine gathers once a local description is set on it.
Gathering(n) == ~engines[n].closed /\ engines[n].wired /\ engines[n].local # None

\* onicecandidate recording a candidate under its port.
onicecandidateByPort(candidates) ==
    \E n \in DOMAIN engines, c \in candidates \cup {EndOfCandidates} :
        /\ Gathering(n)
        /\ IF parseICECandidate(c) # NoInfo
           THEN /\ localCandidates' = Put(localCandidates, c.candidate[6], parseICECandidate(c))
                /\ messages' = addMessage(NoMessages, "ice-debug",
                                          FoundLocalCandidate(parseICECandidate(c)), FALSE)
           ELSE /\ messages' = addMessage(NoMessages, "system",
                                          "Found connection path: " \o OrUnknown(c.type),
                                          FALSE)
                /\ UNCHANGED localCandidates
        /\ delivered' = IF c = EndOfCandidates THEN delivered ELSE delivered \cup {c}
        /\ UNCHANGED <<limits, iceConfig>>
        /\ last' = Step(IF ParseRaises(c) THEN "onicecandidate.caught" ELSE "onicecandidate")
        /\ UNCHANGED <<peerConnection, dataChannel, localStream, remoteCandidates,
                       candidatePairs, isInitiator, localOffer, localAnswer, remoteOffer,
                       remoteAnswer, mediaPermissionState, iceServersLoading, engines, tasks>>

\* onicecandidate turning away what arrives while getStats() is awaited.
onicecandidateUnlessPolling(candidates) ==
    \E n \in DOMAIN engines, c \in candidates \cup {EndOfCandidates} :
        /\ Gathering(n)
        /\ IF \E t \in tasks : t.step = "getStats"
           THEN /\ messages' = NoMessages
                /\ UNCHANGED localCandidates
           ELSE IF parseICECandidate(c) # NoInfo
           THEN /\ localCandidates' = Put(localCandidates, c.foundation, parseICECandidate(c))
                /\ messages' = addMessage(NoMessages, "ice-debug",
                                          FoundLocalCandidate(parseICECandidate(c)), FALSE)
           ELSE /\ messages' = addMessage(NoMessages, "system",
                                          "Found connection path: " \o OrUnknown(c.type),
                                          FALSE)
                /\ UNCHANGED localCandidates
        /\ delivered' = IF c = EndOfCandidates THEN delivered ELSE delivered \cup {c}
        /\ UNCHANGED <<limits, iceConfig>>
        /\ last' = Step(IF ParseRaises(c) THEN "onicecandidate.caught" ELSE "onicecandidate")
        /\ UNCHANGED <<peerConnection, dataChannel, localStream, remoteCandidates,
                       candidatePairs, isInitiator, localOffer, localAnswer, remoteOffer,
                       remoteAnswer, mediaPermissionState, iceServersLoading, engines, tasks>>

\* onicecandidate with a candidate: recorded under its foundation when it parses.
onicecandidate(candidates) ==
    \E n \in DOMAIN engines, c \in candidates \cup {EndOfCandidates} :
        /\ Gathering(n)
        /\ IF parseICECandidate(c) # NoInfo
           THEN /\ localCandidates' = Put(localCandidates, c.foundation, parseICECandidate(c))
                /\ messages' = addMessage(NoMessages, "ice-debug",
                                          FoundLocalCandidate(parseICECandidate(c)), FALSE)
           ELSE /\ messages' = addMessage(NoMessages, "system",
                                          "Found connection path: " \o OrUnknown(c.type),
                                          FALSE)
                /\ UNCHANGED localCandidates
        /\ delivered' = IF c = EndOfCandidates THEN delivered ELSE delivered \cup {c}
        /\ UNCHANGED <<limits, iceConfig>>
        /\ last' = Step(IF ParseRaises(c) THEN "onicecandidate.caught" ELSE "onicecandidate")
        /\ UNCHANGED <<peerConnection, dataChannel, localStream, remoteCandidates,
                       candidatePairs, isInitiator, localOffer, localAnswer, remoteOffer,
                       remoteAnswer, mediaPermissionState, iceServersLoading, engines, tasks>>

\* onicecandidate with null: gathering is over.
onicecandidateNull ==
    \E n \in DOMAIN engines :
        /\ Gathering(n)
        /\ messages' = addMessage(NoMessages, "system", "Finished finding connection paths",
                                  FALSE)
        /\ UNCHANGED <<limits, iceConfig>>
        /\ last' = Step("onicecandidate.null")
        /\ UNCHANGED <<session, iceServersLoading, engines, tasks, delivered>>

\* The entries of a report: each text appended as an 'ice-debug' entry.
Entries(texts, stale) == [i \in DOMAIN texts |-> Msg("ice-debug", texts[i], stale)]

getCandidateTypeDescription(type) ==
    CASE type = "host"  -> "Direct connection (same network)"
      [] type = "srflx" -> "Server reflexive (through NAT/firewall)"
      [] type = "prflx" -> "Peer reflexive (discovered during connectivity)"
      [] type = "relay" -> "Relayed (through TURN server)"
      [] OTHER          -> "Unknown type (" \o type \o ")"

\* logCandidateSummary: the count of each candidate type, the types in the order
\* the registry first meets them.
RECURSIVE candidateTypes(_)
candidateTypes(entries) ==
    IF entries = <<>> THEN EmptyMap
    ELSE LET before == candidateTypes(SubSeq(entries, 1, Len(entries) - 1))
             type   == entries[Len(entries)].value.type
             count  == IF type \in Keys(before) THEN Get(before, type) ELSE 0
         IN Put(before, type, count + 1)

\* The texts logCandidateSummary appends.
logCandidateSummary(registry) ==
    <<"Local candidate summary:">>
    \o [i \in DOMAIN candidateTypes(registry) |->
           "   " \o ToString(candidateTypes(registry)[i].value) \o "x "
           \o candidateTypes(registry)[i].key \o " - "
           \o getCandidateTypeDescription(candidateTypes(registry)[i].key)]

gatheringMessages(state) ==
    CASE state = "new"       -> "Getting ready to find connection paths"
      [] state = "gathering" -> "Finding ways to connect..."
      [] state = "complete"  -> "Found all possible connection paths"
      [] OTHER               -> "Gathering: " \o state

\* onicegatheringstatechange: an engine that has its local description starts
\* gathering, a gathering engine completes; the handler reads the state of the
\* engine the ref holds now.
onicegatheringstatechange ==
    \E n \in DOMAIN engines, move \in {<<"new", "gathering">>, <<"gathering", "complete">>} :
        /\ Gathering(n)
        /\ engines[n].gathering = move[1]
        /\ engines' = [engines EXCEPT ![n].gathering = move[2]]
        /\ messages' =
              IF peerConnection = Null THEN NoMessages
              ELSE LET state == engines'[peerConnection].gathering
                       m1    == addMessage(NoMessages, "system", gatheringMessages(state),
                                           FALSE)
                   IN
                   IF state = "complete"
                   THEN addMessage(m1, "ice-debug",
                                   "Gathered " \o ToString(Len(localCandidates))
                                   \o " local candidates", FALSE)
                        \o Entries(logCandidateSummary(localCandidates), FALSE)
                   ELSE m1
        /\ UNCHANGED <<limits, iceConfig>>
        /\ last' = Step("onicegatheringstatechange")
        /\ UNCHANGED <<session, iceServersLoading, tasks, delivered>>

----------------------------------------------------------------------------
(* Phase signals of the engine, and the analyses they start.               *)

\* The moves of iceConnectionState an engine announces.
IceMoves ==
    {<<"new", "checking">>, <<"checking", "connected">>, <<"checking", "failed">>,
     <<"connected", "completed">>, <<"connected", "disconnected">>,
     <<"disconnected", "connected">>, <<"disconnected", "failed">>}

\* connectionState as it follows iceConnectionState.
ConnectionOf(ice) ==
    CASE ice = "checking" -> "connecting"
      [] ice \in {"connected", "completed"} -> "connected"
      [] OTHER -> ice

\* The text announcing an iceConnectionState.
iceMessages(state) ==
    CASE state = "new"          -> "Starting connection process"
      [] state = "checking"     -> "Testing connection paths"
      [] state = "connected"    -> "Found working connection path"
      [] state = "completed"    -> "Connection optimized"
      [] state = "disconnected" -> "Connection interrupted"
      [] state = "failed"       -> "Could not connect"
      [] state = "closed"       -> "Connection closed"
      [] OTHER                  -> "Network: " \o state

\* The text announcing a connectionState.
stateMessages(state) ==
    CASE state = "new"          -> "Ready to connect"
      [] state = "connecting"   -> "Connecting to peer"
      [] state = "connected"    -> "Connected to peer"
      [] state = "disconnected" -> "Connection lost"
      [] state = "failed"       -> "Connection failed"
      [] state = "closed"       -> "Connection closed"
      [] OTHER                  -> "Connection: " \o state

\* logCandidateFailures / logSuccessfulConnection up to `await getStats()`:
\* the tasks after the call.
StartAnalysis(kind, stale) ==
    IF peerConnection = Null THEN tasks
    ELSE tasks \cup {Task(kind, "getStats", peerConnection, FALSE, NoArg, stale)}

\* oniceconnectionstatechange: the handler reads the state of the engine the
\* ref holds now.
oniceconnectionstatechange ==
    \E n \in DOMAIN engines, move \in IceMoves :
        /\ ~engines[n].closed /\ engines[n].wired
        /\ engines[n].ice = move[1]
        /\ move[1] = "new" => engines[n].local # None /\ engines[n].remote # None
        /\ engines' = [engines EXCEPT ![n].ice = move[2]]
        /\ UNCHANGED <<limits, iceConfig>>
        /\ last' = Step("oniceconnectionstatechange")
        /\ IF peerConnection = Null
           THEN /\ messages' = NoMessages
                /\ UNCHANGED tasks
           ELSE LET state == engines'[peerConnection].ice
                    m1    == addMessage(NoMessages, "system", iceMessages(state), FALSE)
                IN
                CASE state = "checking" ->
                       /\ messages' = addMessage(m1, "ice-debug",
                                          "Starting connectivity checks", FALSE)
                       /\ UNCHANGED tasks
                  [] state = "failed" ->
                       /\ CanAwait(tasks)
                       /\ messages' = addMessage(m1, "ice-debug",
                                          "All connectivity checks failed", FALSE)
                       /\ tasks' = StartAnalysis("logCandidateFailures", FALSE)
                  [] state = "connected" ->
                       /\ CanArm(tasks)
                       /\ messages' = addMessage(m1, "ice-debug", "Connection established",
                                                 FALSE)
                       /\ tasks' = tasks \cup {Task("logSuccessfulConnection", "timer", Null,
                                                    FALSE, NoArg, FALSE)}
                  [] OTHER ->
                       /\ messages' = m1
                       /\ UNCHANGED tasks
        /\ UNCHANGED <<session, iceServersLoading, delivered>>

\* onconnectionstatechange.
onconnectionstatechange ==
    \E n \in DOMAIN engines :
        /\ ~engines[n].closed /\ engines[n].wired
        /\ engines[n].ice # "new"
        /\ engines[n].conn # ConnectionOf(engines[n].ice)
        /\ engines' = [engines EXCEPT ![n].conn = ConnectionOf(engines[n].ice)]
        /\ UNCHANGED <<limits, iceConfig>>
        /\ last' = Step("onconnectionstatechange")
        /\ IF peerConnection = Null
           THEN /\ messages' = NoMessages
                /\ UNCHANGED tasks
           ELSE LET state == engines'[peerConnection].conn
                    m1    == addMessage(NoMessages, "system", stateMessages(state), FALSE)
                IN
                IF state = "failed"
                THEN /\ CanAwait(tasks)
                     /\ messages' = addMessage(m1, "ice-debug", "Connection failed", FALSE)
                     /\ tasks' = StartAnalysis("logCandidateFailures", FALSE)
                ELSE /\ messages' = m1
                     /\ UNCHANGED tasks
        /\ UNCHANGED <<session, iceServersLoading, delivered>>

----------------------------------------------------------------------------
(* The analysis of a failed candidate pair.                                *)

\* A statistics field the report does not carry (undefined).
Absent == -1

\* A counter read as the report carries it.
OrAsReported(x) == x

\* `x || 0`.
OrZero(x) == IF x = Absent \/ x = 0 THEN 0 ELSE x

\* The truthiness of a timestamp field.
Truthy(x) == x # Absent /\ x # 0

\* Math.round(x / 1000) of a positive x.
RoundThousands(x) == (x + 500) \div 1000

getNetworkTopologyInsight(localCandidate, remoteCandidate) ==
    LET localType  == localCandidate.candidateType
        remoteType == remoteCandidate.candidateType
    IN
    IF localType = "host" /\ remoteType = "host"
    THEN "Direct peer-to-peer attempt - both peers must be on same network or have public IPs"
    ELSE IF localType = "host" /\ remoteType = "srflx"
    THEN "Local is direct, remote is behind NAT - remote may not accept incoming connections"
    ELSE IF localType = "srflx" /\ remoteType = "srflx"
    THEN "Both peers behind NAT - may need TURN relay if NAT types are incompatible"
    ELSE IF localType = "relay" \/ remoteType = "relay"
    THEN "Using TURN relay - should work unless TURN server is misconfigured"
    ELSE IF localType = "prflx" \/ remoteType = "prflx"
    THEN "Peer-reflexive discovery - connection path found during connectivity checks"
    ELSE ""

TurnSuggestions ==
    <<"TURN server may be unreachable or credentials invalid",
      "Check TURN server configuration and network connectivity">>

NatSuggestions ==
    <<"NAT/Firewall may be blocking incoming connections",
      "STUN server may have provided incorrect reflexive address">>

DirectSuggestions ==
    <<"Direct connection blocked - peers may be on different networks",
      "Firewall or network policy preventing direct communication">>

\* The suggestions by candidate type with the server-reflexive test first.
CandidateTypeSuggestionsNatFirst(localType, remoteType) ==
    IF localType = "srflx" \/ remoteType = "srflx" THEN NatSuggestions
    ELSE IF localType = "relay" \/ remoteType = "relay" THEN TurnSuggestions
    ELSE IF localType = "host" /\ remoteType = "host" THEN DirectSuggestions
    ELSE <<>>

\* The suggestions of the second pattern, by the types of the two candidates.
CandidateTypeSuggestions(localType, remoteType) ==
    IF localType = "relay" \/ remoteType = "relay" THEN TurnSuggestions
    ELSE IF localType = "srflx" \/ remoteType = "srflx" THEN NatSuggestions
    ELSE IF localType = "host" /\ remoteType = "host" THEN DirectSuggestions
    ELSE <<>>

\* The reason, details and suggestions chosen from the packet counters.
PacketPattern(pair, localCandidate, remoteCandidate) ==
    LET sentPackets       == OrZero(pair.requestsSent)
        receivedPackets   == OrZero(pair.requestsReceived)
        sentResponses     == OrZero(pair.responsesSent)
        receivedResponses == OrZero(pair.responsesReceived)
        localType         == localCandidate.candidateType
        remoteType        == remoteCandidate.candidateType
    IN
    IF sentPackets = 0 /\ receivedPackets = 0
    THEN [reason |-> "No communication attempted - candidate pair was not selected for testing",
          details |-> "This path was deprioritized or testing was stopped early",
          suggestions |-> <<>>]
    ELSE IF sentPackets > 0 /\ receivedPackets = 0
    THEN [reason |-> "Outbound packets sent but no response received",
          details |-> "Sent " \o ToString(sentPackets) \o " requests, received 0 responses",
          suggestions |-> CandidateTypeSuggestions(localType, remoteType)]
    ELSE IF sentPackets > 0 /\ receivedPackets > 0 /\ receivedResponses = 0
    THEN [reason |-> "Partial communication - requests received but responses not getting back",
          details |-> "Sent " \o ToString(sentPackets) \o " requests, received "
                      \o ToString(receivedPackets)
                      \o " requests, but no responses returned",
          suggestions |-> <<"Asymmetric routing issue - return path may be blocked",
                            "Remote peer may have connectivity issues">>]
    ELSE IF receivedResponses > 0 /\ sentResponses = 0
    THEN [reason |-> "Response delivery failure - unable to send responses back",
          details |-> "Received " \o ToString(receivedResponses)
                      \o " responses but couldn't send any back",
          suggestions |-> <<"Local network may be blocking outbound responses">>]
    ELSE [reason |-> "Communication timeout or authentication failure",
          details |-> "Sent: " \o ToString(sentPackets) \o " requests, "
                      \o ToString(sentResponses) \o " responses | Received: "
                      \o ToString(receivedPackets) \o " requests, "
                      \o ToString(receivedResponses) \o " responses",
          suggestions |-> <<>>]

\* The protocol suggestion appended whatever the two protocols.
ProtocolAnalysisAlways(localCandidate, remoteCandidate) ==
    <<"Protocol mismatch: " \o localCandidate.protocol \o " vs "
      \o remoteCandidate.protocol>>

\* The protocol suggestion: one entry, or none.
ProtocolAnalysis(localCandidate, remoteCandidate) ==
    IF localCandidate.protocol # remoteCandidate.protocol
    THEN <<"Protocol mismatch: " \o localCandidate.protocol \o " vs "
           \o remoteCandidate.protocol>>
    ELSE <<>>

\* The timing note appended to the details, or nothing.
TimingAnalysis(pair) ==
    IF Truthy(pair.lastPacketSentTimestamp) /\ Truthy(pair.lastPacketReceivedTimestamp)
    THEN LET timeDiff == pair.lastPacketReceivedTimestamp - pair.lastPacketSentTimestamp IN
         IF timeDiff > 5000
         THEN " | Large time gap (" \o ToString(RoundThousands(timeDiff))
              \o "s) suggests network instability"
         ELSE ""
    ELSE ""

analyzeConnectionFailure(pair, localCandidate, remoteCandidate) ==
    LET analysis       == PacketPattern(pair, localCandidate, remoteCandidate)
        networkInsight == getNetworkTopologyInsight(localCandidate, remoteCandidate)
    IN
    [reason      |-> analysis.reason,
     details     |-> analysis.details \o TimingAnalysis(pair),
     suggestions |-> analysis.suggestions
                     \o ProtocolAnalysis(localCandidate, remoteCandidate)
                     \o (IF networkInsight # "" THEN <<networkInsight>> ELSE <<>>)]

----------------------------------------------------------------------------
(* The reports of getStats() and the two analyses that read them.          *)

\* What Map.get answers for an id no report carries.
NoReport == [type |-> "none", id |-> ""]

\* A local-candidate or remote-candidate report.
CandidateReport(type, id, candidateType, protocol) ==
    [type |-> type, id |-> id, candidateType |-> candidateType, protocol |-> protocol,
     address |-> "192.0.2.1", port |-> 50000]

\* A candidate-pair report; counters: the four packet counters; stamps: the two
\* packet timestamps; rtt: totalRoundTripTime and currentRoundTripTime in
\* microseconds, availableOutgoingBitrate in bits per second.
PairReport(id, state, nominated, priority, localCandidateId, counters, stamps, rtt) ==
    [type |-> "candidate-pair", id |-> id, state |-> state, nominated |-> nominated,
     priority |-> priority, localCandidateId |-> localCandidateId,
     remoteCandidateId |-> "R",
     requestsSent |-> counters[1], requestsReceived |-> counters[2],
     responsesSent |-> counters[3], responsesReceived |-> counters[4],
     lastPacketSentTimestamp |-> stamps[1], lastPacketReceivedTimestamp |-> stamps[2],
     totalRoundTripTime |-> rtt[1], currentRoundTripTime |-> rtt[2],
     availableOutgoingBitrate |-> rtt[3]]

\* stats.forEach(...): the candidate-pair reports in the order of the statistics.
candidatePairStats(stats) == SelectSeq(stats, LAMBDA r : r.type = "candidate-pair")

\* localCandidateStats.get(id) / remoteCandidateStats.get(id): the last report of
\* that type set under the id.
CandidateStats(stats, type, id) ==
    LET hits == {i \in DOMAIN stats : stats[i].type = type /\ stats[i].id = id} IN
    IF hits = {} THEN NoReport ELSE stats[CHOOSE i \in hits : \A j \in hits : j <= i]

RECURSIVE Flatten(_)
Flatten(ss) == IF ss = <<>> THEN <<>> ELSE Head(ss) \o Flatten(Tail(ss))

\* `${candidateType} ${address}:${port} (${protocol})`.
CandidateInfo(c) ==
    c.candidateType \o " " \o c.address \o ":" \o ToString(c.port) \o " (" \o c.protocol \o ")"

\* `${address}:${port} (${protocol})`.
CandidateAddress(c) ==
    c.address \o ":" \o ToString(c.port) \o " (" \o c.protocol \o ")"

\* n hundredths printed as toFixed(2) prints them.
Fixed2(n) ==
    ToString(n \div 100) \o "."
        \o (IF n % 100 < 10 THEN "0" ELSE "") \o ToString(n % 100)

\* (totalRoundTripTime / requestsSent * 1000).toFixed(2), the time in microseconds.
AverageRtt(pair) ==
    Fixed2((2 * pair.totalRoundTripTime + 10 * pair.requestsSent)
               \div (20 * pair.requestsSent))

\* The marks that open the entry of a succeeded and of a failed pair (a check mark
\* and a cross in the source).
SucceededMark == "   [ok] "
FailedMark == "   [x] "

\* The entries logCandidateFailures lists for one succeeded pair.
SucceededPairEntries(stats, pair) ==
    LET localCandidate  == CandidateStats(stats, "local-candidate", pair.localCandidateId)
        remoteCandidate == CandidateStats(stats, "remote-candidate", pair.remoteCandidateId)
    IN
    IF localCandidate # NoReport /\ remoteCandidate # NoReport
    THEN <<SucceededMark \o CandidateInfo(localCandidate) \o " <-> "
           \o CandidateInfo(remoteCandidate)
           \o (IF pair.nominated THEN " [NOMINATED]" ELSE "")>>
    ELSE <<>>

\* The entries for one failed pair, the local candidate's type taken from the
\* first entry of the local registry when it holds one.
FailedPairEntriesByRegistry(stats, pair) ==
    LET reported        == CandidateStats(stats, "local-candidate", pair.localCandidateId)
        localCandidate  == IF localCandidates # EmptyMap /\ reported # NoReport
                           THEN [reported EXCEPT
                                    !.candidateType = localCandidates[1].value.type]
                           ELSE reported
        remoteCandidate == CandidateStats(stats, "remote-candidate", pair.remoteCandidateId)
        failureAnalysis == analyzeConnectionFailure(pair, localCandidate, remoteCandidate)
    IN
    IF localCandidate # NoReport /\ remoteCandidate # NoReport
    THEN <<FailedMark \o CandidateInfo(reported) \o " <-> "
           \o CandidateInfo(remoteCandidate),
           "      " \o failureAnalysis.reason,
           "      " \o failureAnalysis.details>>
         \o [i \in DOMAIN failureAnalysis.suggestions |->
                "      " \o failureAnalysis.suggestions[i]]
    ELSE <<>>

\* The entries logCandidateFailures lists for one failed pair.
FailedPairEntries(stats, pair) ==
    LET localCandidate  == CandidateStats(stats, "local-candidate", pair.localCandidateId)
        remoteCandidate == CandidateStats(stats, "remote-candidate", pair.remoteCandidateId)
        failureAnalysis == analyzeConnectionFailure(pair, localCandidate, remoteCandidate)
    IN
    IF localCandidate # NoReport /\ remoteCandidate # NoReport
    THEN <<FailedMark \o CandidateInfo(localCandidate) \o " <-> "
           \o CandidateInfo(remoteCandidate),
           "      " \o failureAnalysis.reason,
           "      " \o failureAnalysis.details>>
         \o [i \in DOMAIN failureAnalysis.suggestions |->
                "      " \o failureAnalysis.suggestions[i]]
    ELSE <<>>

\* The texts logCandidateFailures appends once getStats() has resolved with stats.
FailureReport(stats) ==
    LET pairs           == candidatePairStats(stats)
        succeededPairs  == SelectSeq(pairs, LAMBDA r : r.state = "succeeded")
        failedPairs     == SelectSeq(pairs, LAMBDA r : r.state = "failed")
        inProgressPairs == SelectSeq(pairs, LAMBDA r : r.state = "in-progress")
        waitingPairs    == SelectSeq(pairs, LAMBDA r : r.state = "waiting")
    IN
    <<"Detailed connectivity check results">>
    \o (IF Len(succeededPairs) > 0
         THEN <<ToString(Len(succeededPairs)) \o " successful connection(s):">>
              \o Flatten([i \in DOMAIN succeededPairs |->
                              SucceededPairEntries(stats, succeededPairs[i])])
         ELSE <<>>)
    \o (IF Len(failedPairs) > 0
         THEN <<ToString(Len(failedPairs)) \o " failed connection(s):">>
              \o Flatten([i \in DOMAIN failedPairs |->
                              FailedPairEntries(stats, failedPairs[i])])
         ELSE <<>>)
    \o (IF Len(inProgressPairs) > 0
         THEN <<ToString(Len(inProgressPairs)) \o " connection(s) still testing...">>
         ELSE <<>>)
    \o (IF Len(waitingPairs) > 0
         THEN <<ToString(Len(waitingPairs)) \o " connection(s) waiting to be tested">>
         ELSE <<>>)
    \o (IF Len(pairs) = 0
         THEN <<"   No candidate pairs found - connection may not have started properly">>
         ELSE <<>>)

\* getStats of logCandidateFailures settles (it does on a closed engine too) and
\* the report is appended, or getStats rejects.
logCandidateFailuresReport(snapshots) ==
    \E t \in tasks, ok \in BOOLEAN, stats \in snapshots :
        /\ t.kind = "logCandidateFailures" /\ t.step = "getStats"
        /\ tasks' = tasks \ {t}
        /\ messages' = IF ok
                       THEN Entries(FailureReport(stats), t.stale)
                       ELSE addMessage(NoMessages, "ice-debug",
                                       "Error getting connection stats", t.stale)
        /\ UNCHANGED <<limits, iceConfig>>
        /\ last' = [Step("logCandidateFailures.report") EXCEPT
                        !.stats = IF ok THEN stats ELSE <<>>]
        /\ UNCHANGED <<session, iceServersLoading, engines, delivered>>

\* The statistics a short run of connectivity checks leaves: none yet, or a failed
\* host pair next to a nominated one that succeeded.
ObservedStats ==
    {<<>>,
     <<CandidateReport("local-candidate", "L", "host", "udp"),
       CandidateReport("remote-candidate", "R", "host", "udp"),
       PairReport("P1", "failed", FALSE, 100, "L", <<2, 0, 0, 0>>, <<Absent, Absent>>,
                  <<Absent, Absent, Absent>>),
       PairReport("P2", "succeeded", TRUE, 200, "L", <<2, 2, 2, 2>>, <<Absent, Absent>>,
                  <<Absent, Absent, Absent>>)>>}

\* The 500 ms timer armed on ICE 'connected' fires: logSuccessfulConnection up to
\* `await getStats()`.
logSuccessfulConnection ==
    \E t \in tasks :
        /\ t.kind = "logSuccessfulConnection" /\ t.step = "timer"
        /\ peerConnection # Null => CanAwait(tasks)
        /\ tasks' = IF peerConnection = Null THEN tasks \ {t}
                    ELSE (tasks \ {t}) \cup {Task("logSuccessfulConnection", "getStats",
                                                  peerConnection, FALSE, NoArg, t.stale)}
        /\ messages' = NoMessages
        /\ UNCHANGED <<limits, iceConfig>>
        /\ last' = Step("logSuccessfulConnection")
        /\ UNCHANGED <<session, iceServersLoading, engines, delivered>>

\* The nominated pairs whatever their state.
pairsNominated(stats) ==
    SelectSeq(candidatePairStats(stats), LAMBDA r : r.nominated)

\* pair => pair.state === 'succeeded' && pair.nominated
nominatedPairs(stats) ==
    SelectSeq(candidatePairStats(stats), LAMBDA r : r.state = "succeeded" /\ r.nominated)

\* pair => pair.state === 'succeeded' && !pair.nominated
otherSuccessfulPairs(stats) ==
    SelectSeq(candidatePairStats(stats), LAMBDA r : r.state = "succeeded" /\ ~r.nominated)

\* `pair.priority || 'N/A'`.
PriorityOrNA(pair) == IF Truthy(pair.priority) THEN ToString(pair.priority) ELSE "N/A"

\* The average round-trip entry of a listed pair, or none.
AverageRttEntry(pair, label) ==
    IF Truthy(pair.totalRoundTripTime) /\ Truthy(pair.requestsSent)
    THEN <<"   Average RTT: " \o AverageRtt(pair) \o "ms (" \o label \o ")">>
    ELSE <<>>

\* The entries logSuccessfulConnection lists for the nominated pair at index.
PrimaryEntries(stats, pair, index) ==
    LET localCandidate  == CandidateStats(stats, "local-candidate", pair.localCandidateId)
        remoteCandidate == CandidateStats(stats, "remote-candidate", pair.remoteCandidateId)
    IN
    IF localCandidate # NoReport /\ remoteCandidate # NoReport
    THEN <<"PRIMARY #" \o ToString(index) \o ": " \o UpperCase(localCandidate.candidateType)
           \o " <-> " \o UpperCase(remoteCandidate.candidateType)
           \o " [NOMINATED - ACTIVE PATH]",
           "   Local: " \o CandidateAddress(localCandidate) \o " - "
           \o getCandidateTypeDescription(localCandidate.candidateType),
           "   Remote: " \o CandidateAddress(remoteCandidate) \o " - "
           \o getCandidateTypeDescription(remoteCandidate.candidateType),
           "   Priority: " \o PriorityOrNA(pair) \o " (HIGHEST PRIORITY - IN USE)">>
         \o AverageRttEntry(pair, "ACTIVE CONNECTION")
         \o (IF Truthy(pair.currentRoundTripTime)
              THEN <<"   Current RTT: " \o Fixed2((pair.currentRoundTripTime + 5) \div 10)
                     \o "ms (LIVE DATA)">>
              ELSE <<>>)
         \o (IF Truthy(pair.availableOutgoingBitrate)
              THEN <<"   Available bandwidth: ~"
                     \o ToString(RoundThousands(pair.availableOutgoingBitrate))
                     \o " kbps (CURRENT CAPACITY)">>
              ELSE <<>>)
         \o <<"   This is the path your data is actually using!">>
    ELSE <<>>

\* The entries logSuccessfulConnection lists for the other succeeded pair at index.
BackupEntries(stats, pair, index) ==
    LET localCandidate  == CandidateStats(stats, "local-candidate", pair.localCandidateId)
        remoteCandidate == CandidateStats(stats, "remote-candidate", pair.remoteCandidateId)
    IN
    IF localCandidate # NoReport /\ remoteCandidate # NoReport
    THEN <<"BACKUP #" \o ToString(index) \o ": " \o UpperCase(localCandidate.candidateType)
           \o " <-> " \o UpperCase(remoteCandidate.candidateType) \o " [STANDBY PATH]",
           "   Local: " \o CandidateAddress(localCandidate) \o " - "
           \o getCandidateTypeDescription(localCandidate.candidateType),
           "   Remote: " \o CandidateAddress(remoteCandidate) \o " - "
           \o getCandidateTypeDescription(remoteCandidate.candidateType),
           "   Priority: " \o PriorityOrNA(pair) \o " (READY IF NEEDED)">>
         \o AverageRttEntry(pair, "BACKUP PERFORMANCE")
         \o <<"   Ready to take over if primary path fails">>
    ELSE <<>>

\* The texts logSuccessfulConnection appends once getStats() has resolved with
\* stats.  (Its fallback branch lists succeeded pairs when neither filter found
\* one: the two filters together find every succeeded pair, so it lists none.)
SuccessReport(stats) ==
    LET nominated == nominatedPairs(stats)
        others    == otherSuccessfulPairs(stats)
    IN
    IF Len(nominated) > 0 \/ Len(others) > 0
    THEN <<"SUCCESSFUL CONNECTION DETAILS">>
         \o Flatten([i \in DOMAIN nominated |-> PrimaryEntries(stats, nominated[i], i)])
         \o Flatten([i \in DOMAIN others |-> BackupEntries(stats, others[i], i)])
    ELSE <<>>

\* getStats of logSuccessfulConnection settles: the report when a pair succeeded,
\* nothing when none did; or getStats rejects.
logSuccessfulConnectionReport(snapshots) ==
    \E t \in tasks, ok \in BOOLEAN, stats \in snapshots :
        /\ t.kind = "logSuccessfulConnection" /\ t.step = "getStats"
        /\ tasks' = tasks \ {t}
        /\ messages' = IF ok
                       THEN Entries(SuccessReport(stats), t.stale)
                       ELSE addMessage(NoMessages, "ice-debug",
                                       "Error getting success stats", t.stale)
        /\ UNCHANGED <<limits, iceConfig>>
        /\ last' = [Step("logSuccessfulConnection.report") EXCEPT
                        !.stats = IF ok THEN stats ELSE <<>>]
        /\ UNCHANGED <<session, iceServersLoading, engines, delivered>>

\* ondatachannel of a receiver's engine: the peer's channel arrives.
ondatachannel ==
    \E n \in DOMAIN engines :
        /\ ~engines[n].closed /\ engines[n].ondatachannel
        /\ engines[n].ice \in {"connected", "completed"}
        /\ engines[n].channel = None
        /\ engines' = [engines EXCEPT ![n].channel = "open"]
        /\ dataChannel' = n
        /\ messages' = addMessage(NoMessages, "system", "Received data channel from peer",
                                  FALSE)
        /\ UNCHANGED <<limits, iceConfig>>
        /\ last' = Step("ondatachannel")
        /\ UNCHANGED <<peerConnection, localStream, localCandidates, remoteCandidates,
                       candidatePairs, isInitiator, localOffer, localAnswer, remoteOffer,
                       remoteAnswer, mediaPermissionState, iceServersLoading, tasks,
                       delivered>>

----------------------------------------------------------------------------
(* The page: a handler runs when its control is rendered and enabled.      *)

\* The Initialize buttons, disabled while an engine is referenced or the servers load.
InitializeEnabled == peerConnection = Null /\ ~iceServersLoading

\* The initiator panel (Create Offer, the remote-answer box, Process Answer).
InitiatorPanel == isInitiator /\ peerConnection # Null

\* The receiver panel (the remote-offer box, Process Offer).
ReceiverPanel == ~isInitiator /\ peerConnection # Null

initializeClick(faults) == InitializeEnabled /\ initializeWebRTC(faults)

\* The configuration panel: the box and its two buttons are rendered when it is
\* shown, Apply Custom Config enabled when the box is not blank.
setCustomIceServersTextChange == showCustomIceConfig /\ setCustomIceServersText

applyCustomIceServersClick ==
    showCustomIceConfig /\ customIceServersText.kind # "blank" /\ applyCustomIceServers

resetToDefaultIceServersClick == showCustomIceConfig /\ resetToDefaultIceServers

createOfferClick == InitiatorPanel /\ createOffer

setRemoteOfferChange == ReceiverPanel /\ setRemoteOffer

handleRemoteOfferClick == ReceiverPanel /\ ~Blank(remoteOffer) /\ handleRemoteOffer

setRemoteAnswerChange == InitiatorPanel /\ setRemoteAnswer

handleRemoteAnswerClick == InitiatorPanel /\ ~Blank(remoteAnswer) /\ handleRemoteAnswer

\* Promises settling and timers firing in the lifecycle and signaling handlers.
Settling(faults) ==
    \/ fetchDefaultIceServersDone(Answered)
    \/ requestMediaPermissionsResume
    \/ initializeWebRTCResume(faults)
    \/ abandon
    \/ createOfferMade
    \/ createOfferSet
    \/ createOfferTimer
    \/ handleRemoteOfferApplied
    \/ handleRemoteOfferAnswered
    \/ handleRemoteOfferSet
    \/ handleRemoteOfferTimer
    \/ handleRemoteAnswerApplied

\* The controls of the page.
Controls(faults) ==
    \/ requestMediaPermissionsClick
    \/ initializeClick(faults)
    \/ createOfferClick
    \/ setRemoteOfferChange
    \/ handleRemoteOfferClick
    \/ setRemoteAnswerChange
    \/ handleRemoteAnswerClick
    \/ reset

\* The engine delivering local candidates.
Gather ==
    \/ onicecandidate(Candidates)
    \/ onicecandidateNull

\* The engine announcing its phases, and the analyses that follow.
Connectivity ==
    \/ oniceconnectionstatechange
    \/ onconnectionstatechange
    \/ logCandidateFailuresReport(ObservedStats)
    \/ logSuccessfulConnection
    \/ logSuccessfulConnectionReport(ObservedStats)
    \/ ondatachannel

\* The page as the user drives it, initializeWebRTC failing where it can; the
\* engine stays silent.
Next == Settling(Faults) \/ Controls(Faults)

Spec == Init /\ [][Next]_vars

\* The page as the user drives it, the engine gathering candidates.
NextGather == Settling(NoFaults) \/ Controls(NoFaults) \/ Gather

SpecGather == Init /\ [][NextGather]_vars

\* An initiator's side up to its offer, the engine gathering candidates and
\* announcing the progress of gathering: no description is pasted.
NextGathering ==
    \/ fetchDefaultIceServersDone(Answered)
    \/ initializeClick(NoFaults)
    \/ initializeWebRTCResume(NoFaults)
    \/ createOfferClick
    \/ createOfferMade
    \/ createOfferSet
    \/ createOfferTimer
    \/ abandon
    \/ reset
    \/ onicecandidate(GatheredCandidates)
    \/ onicecandidateNull
    \/ onicegatheringstatechange

\* One session: a single engine is built.
InitGathering ==
    /\ Mounted
    /\ limits = [engines |-> MaxEngines - 1, awaits |-> MaxAwaits, timers |-> MaxTimers]

SpecGathering == InitGathering /\ [][NextGathering]_vars

\* The candidates an engine discovers late: a host and a server-reflexive one.
LateCandidates ==
    {Candidate("1", "2130706431", "50000", "host"),
     Candidate("2", "1694498815", "50001", "srflx")}

\* An initiator's session from its start to the analyses of its connectivity
\* checks, the engine gathering candidates all along: the statistics polls are
\* outstanding while candidates arrive and Create Offer and Process Answer are used.
NextPolling ==
    \/ fetchDefaultIceServersDone(Answered)
    \/ initializeClick(NoFaults)
    \/ initializeWebRTCResume(NoFaults)
    \/ createOfferClick
    \/ createOfferMade
    \/ createOfferSet
    \/ createOfferTimer
    \/ setRemoteAnswerChange
    \/ handleRemoteAnswerClick
    \/ handleRemoteAnswerApplied
    \/ onicecandidate(LateCandidates)
    \/ onicecandidateNull
    \/ oniceconnectionstatechange
    \/ onconnectionstatechange
    \/ logCandidateFailuresReport(ObservedStats)
    \/ logSuccessfulConnection
    \/ logSuccessfulConnectionReport(ObservedStats)

\* One session, with room for a signaling call awaited next to a statistics poll.
InitPolling ==
    /\ Mounted
    /\ limits = [engines |-> MaxEngines - 1, awaits |-> MaxAwaits + 1, timers |-> MaxTimers]

SpecPolling == InitPolling /\ [][NextPolling]_vars

\* The server configuration used before and between sessions: the default fetch
\* answered or failing, the panel opened, lists typed and applied, the defaults
\* asked for again, Initialize and Reset.
NextServers ==
    \/ fetchDefaultIceServersDone(Responses)
    \/ setShowCustomIceConfig
    \/ setCustomIceServersTextChange
    \/ applyCustomIceServersClick
    \/ resetToDefaultIceServersClick
    \/ initializeClick(NoFaults)
    \/ initializeWebRTCResume(NoFaults)
    \/ reset

SpecServers == Init /\ [][NextServers]_vars

\* The page as the user drives it, the engine announcing its phases.
NextConnectivity == Settling(NoFaults) \/ Controls(NoFaults) \/ Connectivity

SpecConnectivity == Init /\ [][NextConnectivity]_vars

\* The handlers called directly, whatever buttons the page renders; the boxes are
\* typed into where they are rendered.
NextApi ==
    \/ Settling(NoFaults)
    \/ requestMediaPermissionsClick
    \/ initializeWebRTC(NoFaults)
    \/ createOffer
    \/ setRemoteOfferChange
    \/ handleRemoteOffer
    \/ setRemoteAnswerChange
    \/ handleRemoteAnswer
    \/ reset

SpecApi == Init /\ [][NextApi]_vars

\* Initialize, Create Offer and Reset used while earlier calls are still suspended,
\* the engines gathering: no description is pasted.
NextOverlap ==
    \/ fetchDefaultIceServersDone(Answered)
    \/ initializeClick(NoFaults)
    \/ initializeWebRTCResume(NoFaults)
    \/ createOfferClick
    \/ createOfferMade
    \/ createOfferSet
    \/ createOfferTimer
    \/ abandon
    \/ reset
    \/ Gather

SpecOverlap == InitOverlap /\ [][NextOverlap]_vars

\* Initialize, Create Offer and Reset used in quick succession, the engines silent:
\* the grace timer of an offer can still be armed when the next offer arms its own.
NextGrace ==
    \/ fetchDefaultIceServersDone(Answered)
    \/ initializeClick(NoFaults)
    \/ initializeWebRTCResume(NoFaults)
    \/ createOfferClick
    \/ createOfferMade
    \/ createOfferSet
    \/ createOfferTimer
    \/ abandon
    \/ reset

\* The same start, with room for a second armed timer.
InitGrace ==
    /\ Mounted
    /\ limits = [engines |-> MaxEngines, awaits |-> MaxAwaits, timers |-> MaxTimers + 1]

SpecGrace == InitGrace /\ [][NextGrace]_vars

----------------------------------------------------------------------------
(* The two analyses on the statistics an engine can report.                *)

Kinds == {"host", "srflx", "prflx", "relay"}

Protocols == {"udp", "tcp"}

\* A packet counter: not reported, zero, or some packets.
Counters == {Absent, 0, 2}

\* A packet timestamp in milliseconds: not reported, or one of three instants.
Stamps == {Absent, 1000, 6000, 7000}

NoRtt == <<Absent, Absent, Absent>>

\* Statistics with one failed pair whose two candidates are reported.
FailedPairStats ==
    {<<CandidateReport("local-candidate", "L", lk, lp),
       CandidateReport("remote-candidate", "R", rk, rp),
       PairReport("P1", "failed", FALSE, 100, "L", c, st, NoRtt)>> :
        lk \in Kinds, rk \in Kinds, lp \in Protocols, rp \in Protocols,
        c \in [1..4 -> Counters], st \in [1..2 -> Stamps]}

\* The priorities the engine gave the pairs, in the order it reports them.
Priorities == <<100, 300, 200>>

\* RTCStatsIceCandidatePairState.
PairStates == {"frozen", "waiting", "in-progress", "failed", "succeeded"}

\* The pair reported at position i: its local candidate reported ("L") or not.
PairsAt(i) ==
    {PairReport("P" \o ToString(i), state, nominated, Priorities[i], lc, <<2, 2, 2, 2>>,
                <<Absent, Absent>>, NoRtt) :
        state \in PairStates, nominated \in BOOLEAN,
        lc \in {"L", "gone"}}

\* Statistics with up to three pairs between one local and one remote candidate.
PairsStats ==
    LET head == <<CandidateReport("local-candidate", "L", "srflx", "udp"),
                  CandidateReport("remote-candidate", "R", "host", "udp")>>
    IN
    {head} \cup {head \o <<a>> : a \in PairsAt(1)}
           \cup {head \o <<a, b>> : a \in PairsAt(1), b \in PairsAt(2)}
           \cup {head \o <<a, b, c>> : a \in PairsAt(1), b \in PairsAt(2), c \in PairsAt(3)}

\* A receiver that exposed its answer, its engine in ICE state ice, with the
\* analysis kind suspended at getStats() by the step op that appended ms.
AnalysisPending(kind, ice, op, ms) ==
    /\ peerConnection = 1
    /\ dataChannel = Null
    /\ localStream = FALSE
    /\ localCandidates = EmptyMap
    /\ remoteCandidates = EmptyMap
    /\ candidatePairs = EmptyMap
    /\ isInitiator = FALSE
    /\ localOffer = NoText
    /\ localAnswer = Stringify(Description("answer", 1))
    /\ remoteOffer = Stringify(Description("offer", Peer))
    /\ remoteAnswer = NoText
    /\ mediaPermissionState = "denied"
    /\ iceServersLoading = FALSE
    /\ iceServers = ApiServers
    /\ usingCustomIceServers = FALSE
    /\ customIceServersText = BlankText
    /\ customIceServersError = ""
    /\ showCustomIceConfig = FALSE
    /\ fetches = 0
    /\ applied = NoServers
    /\ messages = ms
    /\ engines = <<[NewEngine EXCEPT !.wired = TRUE, !.local = "answer",
                                     !.remote = "offer", !.ice = ice,
                                     !.ondatachannel = TRUE]>>
    /\ tasks = {Task(kind, "getStats", 1, FALSE, NoArg, FALSE)}
    /\ limits = [engines |-> MaxEngines, awaits |-> MaxAwaits, timers |-> MaxTimers]
    /\ delivered = {}
    /\ last = [op |-> op, phase |-> "answered", effects |-> <<>>, again |-> FALSE,
               stats |-> <<>>, run |-> 0, refused |-> FALSE]

\* The connectivity checks of an answered session have failed, or have connected
\* and the 500 ms timer has fired: the analysis waits for the statistics.
InitAnalyzer ==
    \/ AnalysisPending("logCandidateFailures", "failed", "oniceconnectionstatechange",
                       addMessage(addMessage(NoMessages, "system", "Could not connect", FALSE),
                                  "ice-debug", "All connectivity checks failed", FALSE))
    \/ AnalysisPending("logSuccessfulConnection", "connected", "logSuccessfulConnection",
                       NoMessages)

\* getStats() resolves with any of the statistics above.
NextAnalyzer ==
    \/ logCandidateFailuresReport(FailedPairStats \cup PairsStats)
    \/ logSuccessfulConnectionReport(PairsStats)

SpecAnalyzer == InitAnalyzer /\ [][NextAnalyzer]_vars

----------------------------------------------------------------------------
(* Properties.                                                             *)

\* The step just taken is the initializeWebRTC try block failing.
InitializeFailed ==
    /\ last.op \in {"initializeWebRTC", "initializeWebRTC.resume"}
    /\ \E i \in DOMAIN messages : messages[i].text = "Error initializing WebRTC"

\* The registries and the exposed descriptions hold nothing.
NothingHeld ==
    /\ localCandidates = EmptyMap
    /\ remoteCandidates = EmptyMap
    /\ candidatePairs = EmptyMap
    /\ localOffer = NoText
    /\ localAnswer = NoText

\* C1: initializeWebRTC called while an engine is referenced reports an error and
\* changes nothing: the engine ref, the engines, the role flag and both candidate
\* registries stay as they were.
C1_InitializeWhileActiveIsRefused ==
    [][(last'.op = "initializeWebRTC" /\ peerConnection # Null) =>
          /\ "error" \in Types(messages')
          /\ UNCHANGED <<peerConnection, engines, isInitiator, localCandidates,
                         remoteCandidates>>]_vars

\* C2: whatever the phase reset runs in, right after it the phase is idle: no engine
\* and no channel referenced, the three maps empty, no local offer or answer
\* exposed, the role flag cleared.
C2_ResetEndsInIdle ==
    last.op = "reset" =>
        /\ Phase = "idle"
        /\ peerConnection = Null
        /\ dataChannel = Null
        /\ NothingHeld
        /\ ~isInitiator

\* C2: reset has run on an initiator whose answer was applied.
C2_ResetFromAnswered == last.op = "reset" /\ last.phase = "answered" /\ Len(engines) = 1

\* C3: when initializeWebRTC is called right after reset and runs to its end, the
\* phase is the ready phase of the role asked for, on a fresh engine, and the maps
\* and the exposed descriptions are empty.
C3_ResetThenInitializeIsClean ==
    last.run = 3 =>
        /\ NothingHeld
        /\ peerConnection # Null
        /\ engines[peerConnection].local = None /\ engines[peerConnection].remote = None
        /\ \/ /\ Phase = "initiator-ready"
              /\ messages[Len(messages)].text = "Initialized as initiator"
           \/ /\ Phase = "receiver-ready"
              /\ messages[Len(messages)].text = "Initialized as receiver"

\* C4: an analysis started before a reset appends nothing once reset has run: no
\* report entry comes from a handler called before the last reset.
C4_NoAnalysisOutlivesReset ==
    last.op \in {"logCandidateFailures.report", "logSuccessfulConnection.report"} =>
        \A i \in DOMAIN messages : ~messages[i].stale

\* C5: in every state the keys of localCandidates are the foundations of the
\* candidates delivered since it was cleared, each entry is the parse of a delivered
\* candidate of that foundation, and delivering a candidate whose entry is already
\* in the registry leaves the registry as it is.
C5_RegistryIsDeliveredByFoundation ==
    /\ [](/\ Keys(localCandidates) = {c.foundation : c \in delivered}
          /\ \A k \in Keys(localCandidates) :
                \E c \in delivered : /\ c.foundation = k
                                     /\ Get(localCandidates, k) = parseICECandidate(c))
    /\ [][\A c \in Candidates :
            (/\ last'.op = "onicecandidate"
             /\ messages'[1].text = FoundLocalCandidate(parseICECandidate(c))
             /\ c.foundation \in Keys(localCandidates)
             /\ Get(localCandidates, c.foundation) = parseICECandidate(c))
            => localCandidates' = localCandidates]_vars

\* C5: all three candidates were delivered, two of them of one foundation, to an
\* initiator whose answer was already applied.
C5_DeliveredAfterAnswered ==
    /\ last.op = "onicecandidate"
    /\ last.phase = "answered"
    /\ Cardinality(delivered) = 3
    /\ Cardinality(Keys(localCandidates)) = 2

\* C6: createOffer called in receiver-ready reports an error and starts nothing.
C6_CreateOfferRefusedOnReceiver ==
    (last.op = "createOffer" /\ last.phase = "receiver-ready") =>
        /\ "error" \in Types(messages)
        /\ \A t \in tasks : t.kind # "createOffer"

\* C7: a remote answer is applied to the engine only in awaiting-answer.
C7_AnswerAppliedOnlyWhenAwaited ==
    [][(last'.op = "handleRemoteAnswer.applied" /\ engines' # engines) =>
          Phase = "awaiting-answer"]_vars

\* C8: createOffer, handleRemoteOffer and handleRemoteAnswer called with no engine
\* referenced report an error and change nothing: no ref or state, no engine, no
\* promise awaited and no timer armed.
C8_NoSessionIsAnError ==
    [][(last'.op \in {"createOffer", "handleRemoteOffer", "handleRemoteAnswer"}
        /\ peerConnection = Null) =>
          /\ "error" \in Types(messages')
          /\ UNCHANGED <<session, engines, tasks>>]_vars

\* C8: handleRemoteAnswer has been called in idle and has reported its error.
C8_AnswerWithoutSession ==
    /\ last.op = "handleRemoteAnswer"
    /\ last.phase = "idle"
    /\ "error" \in Types(messages)

\* C9: handleRemoteOffer on text that does not parse reports an error and changes
\* nothing (no ref or state, no engine, nothing awaited), and in receiver-ready a
\* later call on the peer's offer hands it to the engine all the same.
C9_MalformedOfferChangesNothing ==
    /\ [][(last'.op = "handleRemoteOffer" /\ peerConnection # Null
           /\ ~Blank(remoteOffer) /\ ParseThrows(remoteOffer)) =>
             /\ "error" \in Types(messages')
             /\ UNCHANGED <<session, engines, tasks>>]_vars
    /\ [][(last'.op = "handleRemoteOffer" /\ last.refused /\ Phase = "receiver-ready"
           /\ ~Blank(remoteOffer) /\ ~ParseThrows(remoteOffer)) =>
             /\ "error" \notin Types(messages')
             /\ \E t \in tasks' :
                   /\ t.step = "setRemoteDescription"
                   /\ t.eng = peerConnection
                   /\ t.arg = Parse(remoteOffer)]_vars

\* C9: a receiver that refused a malformed offer has exposed its answer to a later one.
C9_AnswerAfterMalformedOffer ==
    /\ last.refused
    /\ ~isInitiator
    /\ Phase = "answered"
    /\ localAnswer # NoText

\* C10: when the try block of initializeWebRTC fails, no engine is referenced, no
\* channel is referenced and the role flag is clear.
C10_FailedInitializeLeavesIdle ==
    InitializeFailed => (peerConnection = Null /\ dataChannel = Null /\ ~isInitiator)

\* C11: while an engine is referenced and no reset() runs, the role flag keeps the
\* value it got when the session was initialized.
C11_RoleFixedUntilReset ==
    [][(peerConnection # Null /\ last'.op # "reset") => isInitiator' = isInitiator]_vars

ResetCloses == {"peerConnection.current.close()", "dataChannel.current.close()"}

ResetDrops ==
    {"peerConnection.current = null", "dataChannel.current = null",
     "localCandidates.current.clear()", "remoteCandidates.current.clear()",
     "candidatePairs.current.clear()"}

\* C12: reset() closes the engine and the data channel it holds, and every close()
\* comes before the first ref is dropped or map is cleared.
C12_ResetClosesBeforeClearing ==
    [][last'.op = "reset" =>
          /\ peerConnection # Null =>
                /\ engines'[peerConnection].closed
                /\ \E i \in DOMAIN last'.effects :
                       last'.effects[i] = "peerConnection.current.close()"
          /\ dataChannel # Null =>
                /\ engines'[dataChannel].channel = "closed"
                /\ \E i \in DOMAIN last'.effects :
                       last'.effects[i] = "dataChannel.current.close()"
          /\ ResetDrops \subseteq {last'.effects[i] : i \in DOMAIN last'.effects}
          /\ \A i, j \in DOMAIN last'.effects :
                (last'.effects[i] \in ResetCloses /\ last'.effects[j] \in ResetDrops)
                    => i < j]_vars

\* C12: a reset() of an initiator's session has closed the engine and its channel.
C12_ResetClosedEngineAndChannel ==
    /\ last.op = "reset"
    /\ ResetCloses \subseteq {last.effects[i] : i \in DOMAIN last.effects}
    /\ last.phase \in {"offer-created", "awaiting-answer"}
    /\ \E n \in DOMAIN engines : engines[n].closed /\ engines[n].channel = "closed"

\* C13: a reset() that runs right after a reset() changes nothing: the engine and
\* channel refs, the registries, the phase, the role, the descriptions, the stream
\* ref, the engines and the content of the event stream stay as the first left them.
C13_ResetIsIdempotent ==
    [][(last.op = "reset" /\ last'.op = "reset") =>
          /\ session' = session
          /\ Phase' = Phase
          /\ engines' = engines
          /\ tasks' = tasks
          /\ [i \in DOMAIN messages' |-> messages'[i].text]
                = [i \in DOMAIN messages |-> messages[i].text]]_vars

\* C13: reset() ran twice in a row after a session whose engine the first closed.
C13_ResetTwiceAfterSession ==
    /\ last.again
    /\ \E n \in DOMAIN engines : engines[n].closed
    /\ peerConnection = Null

\* logCandidateFailures has just reported on statistics with one failed pair whose
\* candidates are reported.
FailureAnalyzed ==
    /\ last.op = "logCandidateFailures.report"
    /\ Len(last.stats) = 3
    /\ last.stats[3].type = "candidate-pair" /\ last.stats[3].state = "failed"
    /\ last.stats[3].localCandidateId = last.stats[1].id

\* The failed pair and its two candidates, and what the report says about them.
FailedPair == last.stats[3]
FailedLocal == last.stats[1]
FailedRemote == last.stats[2]
ReportedReason == messages[4].text
ReportedDetails == messages[5].text
ReportedSuggestions == {messages[i].text : i \in 6..Len(messages)}

\* A counter of the failed pair, 0 when the report does not carry it.
Counter(x) == IF x = Absent THEN 0 ELSE x
SentRequests == Counter(FailedPair.requestsSent)
ReceivedRequests == Counter(FailedPair.requestsReceived)
SentResponses == Counter(FailedPair.responsesSent)
ReceivedResponses == Counter(FailedPair.responsesReceived)

\* The five rules of the diagnosis, each taken only when no earlier one is.
Rule1 == SentRequests = 0 /\ ReceivedRequests = 0
Rule2 == ~Rule1 /\ SentRequests > 0 /\ ReceivedRequests = 0
Rule3 == ~Rule1 /\ ~Rule2 /\ SentRequests > 0 /\ ReceivedRequests > 0 /\ ReceivedResponses = 0
Rule4 == ~Rule1 /\ ~Rule2 /\ ~Rule3 /\ ReceivedResponses > 0 /\ SentResponses = 0
Rule5 == ~Rule1 /\ ~Rule2 /\ ~Rule3 /\ ~Rule4

\* C14: the reason reported for a failed pair is that of the first rule its
\* counters match, in the order 1 to 5, a missing counter counting as 0.
C14_FirstMatchingRuleWins ==
    FailureAnalyzed =>
        ReportedReason = "      " \o
            (CASE Rule1 -> "No communication attempted - candidate pair was not selected for testing"
               [] Rule2 -> "Outbound packets sent but no response received"
               [] Rule3 -> "Partial communication - requests received but responses not getting back"
               [] Rule4 -> "Response delivery failure - unable to send responses back"
               [] Rule5 -> "Communication timeout or authentication failure")

\* C14: a pair without request counters that received responses and sent none back
\* was reported under rule 1.
C14_RuleOneBeforeRuleFour ==
    /\ FailureAnalyzed
    /\ FailedPair.requestsSent = Absent /\ FailedPair.requestsReceived = Absent
    /\ FailedPair.responsesReceived > 0 /\ FailedPair.responsesSent = 0
    /\ ReportedReason
         = "      No communication attempted - candidate pair was not selected for testing"

\* The suggestions of seq, as the report prints them.
Printed(seq) == {"      " \o seq[i] : i \in DOMAIN seq}

\* A candidate of kind k is on one side of the failed pair.
EitherIs(k) == FailedLocal.candidateType = k \/ FailedRemote.candidateType = k

\* C15: under rule 2, a relay candidate on either side gives the TURN hints alone;
\* otherwise a server-reflexive candidate on either side gives the NAT and STUN
\* hints alone; otherwise two host candidates give the direct-connection hints.
C15_RelayThenReflexiveThenHost ==
    (FailureAnalyzed /\ Rule2) =>
        LET hints == ReportedSuggestions
                        \cap Printed(TurnSuggestions \o NatSuggestions \o DirectSuggestions)
        IN
        IF EitherIs("relay") THEN hints = Printed(TurnSuggestions)
        ELSE IF EitherIs("srflx") THEN hints = Printed(NatSuggestions)
        ELSE IF FailedLocal.candidateType = "host" /\ FailedRemote.candidateType = "host"
        THEN hints = Printed(DirectSuggestions)
        ELSE hints = {}

\* C15: a pair of a server-reflexive and a relay candidate was reported under
\* rule 2 with the TURN hints.
C15_RelayWithReflexive ==
    /\ FailureAnalyzed /\ Rule2
    /\ FailedLocal.candidateType = "srflx" /\ FailedRemote.candidateType = "relay"
    /\ Printed(TurnSuggestions) \subseteq ReportedSuggestions

\* The topology insights, as the report prints them.
Insights ==
    Printed(<<"Direct peer-to-peer attempt - both peers must be on same network or have public IPs",
              "Local is direct, remote is behind NAT - remote may not accept incoming connections",
              "Both peers behind NAT - may need TURN relay if NAT types are incompatible",
              "Using TURN relay - should work unless TURN server is misconfigured",
              "Peer-reflexive discovery - connection path found during connectivity checks">>)

\* C16: whichever rule matched, the suggestions reported for a failed pair carry a
\* topology insight.
C16_InsightInEveryCase ==
    FailureAnalyzed => ReportedSuggestions \cap Insights # {}

\* Both packet timestamps of the failed pair are reported.
BothStamps ==
    FailedPair.lastPacketSentTimestamp # Absent /\ FailedPair.lastPacketReceivedTimestamp # Absent

\* The milliseconds between the two packet timestamps of the failed pair.
StampGap ==
    LET d == FailedPair.lastPacketReceivedTimestamp - FailedPair.lastPacketSentTimestamp IN
    IF d < 0 THEN 0 - d ELSE d

\* The details of the failed pair before any note is appended.
DetailsOfCounters == "      " \o PacketPattern(FailedPair, FailedLocal, FailedRemote).details

\* C17: the details of a failed pair end with the instability note, citing the gap
\* in whole seconds, exactly when both timestamps are reported and are more than
\* 5000 ms apart; otherwise nothing is appended to them.
C17_NoteWhenStampsFarApart ==
    FailureAnalyzed =>
        ReportedDetails =
            DetailsOfCounters \o
                (IF BothStamps /\ StampGap > 5000
                 THEN " | Large time gap (" \o ToString(StampGap \div 1000)
                      \o "s) suggests network instability"
                 ELSE "")

\* The suggestion that protocols a and b do not match, as the report prints it.
Mismatch(a, b) == "      Protocol mismatch: " \o a \o " vs " \o b

\* C18: whichever rule matched, the suggestions reported for a failed pair carry a
\* protocol-mismatch suggestion exactly when the protocols of its two candidates
\* differ, and that suggestion names the two protocols.
C18_MismatchIffProtocolsDiffer ==
    FailureAnalyzed =>
        LET said == ReportedSuggestions
                        \cap {Mismatch(a, b) : a \in Protocols, b \in Protocols}
        IN
        IF FailedLocal.protocol # FailedRemote.protocol
        THEN /\ said # {}
             /\ said \subseteq {Mismatch(FailedLocal.protocol, FailedRemote.protocol),
                                Mismatch(FailedRemote.protocol, FailedLocal.protocol)}
        ELSE said = {}

\* C18: a failed pair of a TCP and a UDP candidate was reported under rule 1 with
\* the mismatch suggestion.
C18_TcpAgainstUdp ==
    /\ FailureAnalyzed /\ Rule1
    /\ FailedLocal.protocol = "tcp" /\ FailedRemote.protocol = "udp"
    /\ Mismatch("tcp", "udp") \in ReportedSuggestions

\* C19: the details reported for a failed pair print its counters as they are:
\* every number stands for the counter its words name (requests sent, requests
\* received, responses sent, responses received), under each of the five rules.
C19_DetailsPrintTheCounters ==
    FailureAnalyzed =>
        ReportedDetails =
            "      " \o
            (CASE Rule1 -> "This path was deprioritized or testing was stopped early"
               [] Rule2 -> "Sent " \o ToString(SentRequests) \o " requests, received "
                           \o ToString(ReceivedResponses) \o " responses"
               [] Rule3 -> "Sent " \o ToString(SentRequests) \o " requests, received "
                           \o ToString(ReceivedRequests)
                           \o " requests, but no responses returned"
               [] Rule4 -> "Received " \o ToString(ReceivedResponses)
                           \o " responses but couldn't send any back"
               [] Rule5 -> "Sent: " \o ToString(SentRequests) \o " requests, "
                           \o ToString(SentResponses) \o " responses | Received: "
                           \o ToString(ReceivedRequests) \o " requests, "
                           \o ToString(ReceivedResponses) \o " responses")
            \o TimingAnalysis(FailedPair)

\* logSuccessfulConnection has just reported on the statistics it was given.
SuccessAnalyzed ==
    /\ last.op = "logSuccessfulConnection.report"
    /\ last.stats # <<>>

\* The elements of a sequence.
Range(seq) == {seq[i] : i \in DOMAIN seq}

\* The positions in the report of the priority entry of pair as a primary pair,
\* and as a backup pair.
ListedPrimary(pair) ==
    {i \in DOMAIN messages :
        messages[i].text = "   Priority: " \o ToString(pair.priority)
                           \o " (HIGHEST PRIORITY - IN USE)"}
ListedBackup(pair) ==
    {i \in DOMAIN messages :
        messages[i].text = "   Priority: " \o ToString(pair.priority) \o " (READY IF NEEDED)"}

\* C20: of the pairs in the statistics, each succeeded pair is in exactly one of
\* the two groups, primary when nominated and backup when not, and no other pair
\* is in either; a pair whose candidates are reported is listed once under its
\* group, and every primary pair is listed before every backup pair.
C20_SucceededPairsArePartitioned ==
    SuccessAnalyzed =>
        LET pairs   == Range(candidatePairStats(last.stats))
            primary == Range(nominatedPairs(last.stats))
            backup  == Range(otherSuccessfulPairs(last.stats))
        IN
        /\ primary \cap backup = {}
        /\ \A pair \in pairs :
              /\ pair \in primary <=> (pair.state = "succeeded" /\ pair.nominated)
              /\ pair \in backup <=> (pair.state = "succeeded" /\ ~pair.nominated)
              /\ pair.localCandidateId = "L" =>
                    /\ Cardinality(ListedPrimary(pair)) = IF pair \in primary THEN 1 ELSE 0
                    /\ Cardinality(ListedBackup(pair)) = IF pair \in backup THEN 1 ELSE 0
        /\ \A p, b \in pairs :
              \A i \in ListedPrimary(p), j \in ListedBackup(b) : i < j

\* C20: the statistics reported a succeeded pair that is not nominated, then a
\* nominated one, then a nominated pair that failed; the report lists the second
\* as primary before the first as backup.
C20_BackupReportedFirstByEngine ==
    /\ SuccessAnalyzed
    /\ Len(last.stats) = 5
    /\ last.stats[3].state = "succeeded" /\ ~last.stats[3].nominated
    /\ last.stats[4].state = "succeeded" /\ last.stats[4].nominated
    /\ last.stats[5].state = "failed" /\ last.stats[5].nominated
    /\ \A k \in 3..5 : last.stats[k].localCandidateId = "L"
    /\ \E i \in ListedPrimary(last.stats[4]), j \in ListedBackup(last.stats[3]) : i < j

\* C21: within the primary pairs and within the backup pairs of a success report,
\* a pair of higher priority is listed before a pair of lower priority, whatever
\* the order the statistics carried them in.
C21_GroupsByDescendingPriority ==
    SuccessAnalyzed =>
        \A p, q \in Range(candidatePairStats(last.stats)) :
            p.priority > q.priority =>
                /\ \A i \in ListedPrimary(p), j \in ListedPrimary(q) : i < j
                /\ \A i \in ListedBackup(p), j \in ListedBackup(q) : i < j

\* logCandidateFailures has just reported on the statistics it was given.
FailuresReported ==
    /\ last.op = "logCandidateFailures.report"
    /\ last.stats # <<>>

\* The positions in the report of the entries of the nominated succeeded pairs, of
\* the other succeeded pairs, and of the failed pairs (in the statistics at hand
\* every pair joins the same two candidates).
PairLine == CandidateInfo(last.stats[1]) \o " <-> " \o CandidateInfo(last.stats[2])
NominatedLines ==
    {i \in DOMAIN messages :
        \/ messages[i].text = SucceededMark \o PairLine \o " [NOMINATED]"
        \/ \E p \in Range(candidatePairStats(last.stats)) : i \in ListedPrimary(p)}
OtherSucceededLines ==
    {i \in DOMAIN messages :
        \/ messages[i].text = SucceededMark \o PairLine
        \/ \E p \in Range(candidatePairStats(last.stats)) : i \in ListedBackup(p)}
FailedLines == {i \in DOMAIN messages : messages[i].text = FailedMark \o PairLine}

\* C22: in the failure report and in the success report alike, every entry of a
\* succeeded pair precedes every entry of a failed pair, and every entry of a
\* nominated succeeded pair precedes every entry of a succeeded pair that is not
\* nominated.
C22_SuccessesFirstNominatedFirst ==
    (FailuresReported \/ SuccessAnalyzed) =>
        /\ \A i \in NominatedLines \cup OtherSucceededLines, j \in FailedLines : i < j
        /\ \A i \in NominatedLines, j \in OtherSucceededLines : i < j

\* Gathering has just completed and the summary of the local registry was appended.
SummaryReported ==
    /\ last.op = "onicegatheringstatechange"
    /\ \E i \in DOMAIN messages : messages[i].text = "Local candidate summary:"

\* The number of entries of the local registry of type k, the positions of the
\* summary entry that reports it, and the place of k among the type names in
\* ascending order.
CountOfType(k) ==
    Cardinality({i \in DOMAIN localCandidates : localCandidates[i].value.type = k})
SummaryLines(k) ==
    {i \in DOMAIN messages :
        messages[i].text = "   " \o ToString(CountOfType(k)) \o "x " \o k \o " - "
                           \o getCandidateTypeDescription(k)}
TypeRank(k) == CHOOSE i \in 1..4 : <<"host", "prflx", "relay", "srflx">>[i] = k

\* C23: the summary has one entry per candidate type in the local registry, with
\* the number of registry entries of that type, the entries in descending order of
\* count and, for equal counts, in ascending order of type name.
C23_SummaryByDescendingCount ==
    SummaryReported =>
        /\ \A k \in Kinds :
              Cardinality(SummaryLines(k)) = IF CountOfType(k) > 0 THEN 1 ELSE 0
        /\ Len(messages) = 3 + Cardinality({k \in Kinds : CountOfType(k) > 0})
        /\ \A k1, k2 \in Kinds :
              (\/ CountOfType(k1) > CountOfType(k2)
               \/ CountOfType(k1) = CountOfType(k2) /\ TypeRank(k1) < TypeRank(k2))
                  => \A i \in SummaryLines(k1), j \in SummaryLines(k2) : i < j

\* The candidates the peer's descriptions carry in their a=candidate lines.
PeerCandidates ==
    {Candidate("7", "2130706431", "50000", "host"),
     Candidate("8", "1694498815", "50001", "srflx")}

\* The candidates carried by the remote description the referenced engine accepted.
AcceptedRemoteCandidates ==
    IF peerConnection # Null /\ engines[peerConnection].remote # None
    THEN PeerCandidates ELSE {}

\* C24: once the engine has accepted a remote description, the remote registry
\* holds the candidates it carried, each under its foundation.
C24_RemoteCandidatesAreRecorded ==
    \A c \in AcceptedRemoteCandidates :
        /\ c.foundation \in Keys(remoteCandidates)
        /\ Get(remoteCandidates, c.foundation) = parseICECandidate(c)

\* C25: every candidate delivered without a foundation since the registry was
\* cleared has an entry of its own in the local registry.
C25_CandidatesWithoutFoundationKeptApart ==
    \A c \in delivered :
        c.foundation = None =>
            \E i \in DOMAIN localCandidates :
                localCandidates[i].value = parseICECandidate(c)

\* The pairs of the statistics at hand in the given state.
PairsInState(state) ==
    {i \in DOMAIN last.stats :
        last.stats[i].type = "candidate-pair" /\ last.stats[i].state = state}

\* The positions in the report of the entries that tell of a pair left out.
OmittedLines ==
    {i \in DOMAIN messages : messages[i].text = "pair omitted from detailed report"}

\* C26: a failure report is produced whatever data is missing, and it carries one
\* outcome per pair of the succeeded and the failed bucket, a pair whose candidate
\* is not reported included: as many as the count each bucket announces.
C26_OneOutcomePerAnnouncedPair ==
    FailuresReported =>
        /\ messages[1].text = "Detailed connectivity check results"
        /\ Cardinality(NominatedLines \cup OtherSucceededLines \cup FailedLines
                          \cup OmittedLines)
             = Cardinality(PairsInState("succeeded")) + Cardinality(PairsInState("failed"))

\* The count the report announces for the bucket whose announcement ends in
\* suffix, 0 when the bucket is not announced.
Announced(suffix) ==
    LET said == {n \in 1..3 : \E i \in DOMAIN messages :
                                 messages[i].text = ToString(n) \o suffix}
    IN IF said = {} THEN 0 ELSE CHOOSE n \in said : TRUE

\* C27: the counts a failure report announces for the succeeded, failed,
\* in-progress and waiting buckets sum to the number of pairs of the poll, and the
\* in-progress and waiting buckets add nothing to the report but their counts.
C27_BucketsCoverThePoll ==
    FailuresReported =>
        /\ Announced(" successful connection(s):") + Announced(" failed connection(s):")
             + Announced(" connection(s) still testing...")
             + Announced(" connection(s) waiting to be tested")
             = Len(candidatePairStats(last.stats))
        /\ (PairsInState("succeeded") = {} /\ PairsInState("failed") = {}) =>
              Len(messages)
                = 1 + Cardinality({b \in {" connection(s) still testing...",
                                          " connection(s) waiting to be tested"} :
                                      Announced(b) > 0})
                    + (IF candidatePairStats(last.stats) = <<>> THEN 1 ELSE 0)

\* The texts the catch blocks of the handlers append.
CatchTexts ==
    {"Error initializing WebRTC", "Error creating offer", "Error handling remote offer",
     "Error handling remote answer", "Error getting connection stats",
     "Error getting success stats"}

\* An entry that reports a failure: of type 'error', or the text of a catch block.
ReportsFailure(m) == m.type = "error" \/ m.text \in CatchTexts

\* C28: the step in which parseICECandidate catches an error appends an entry that
\* reports the failure.
C28_CaughtParseErrorIsReported ==
    last.op = "onicecandidate.caught" =>
        \E i \in DOMAIN messages : ReportsFailure(messages[i])

\* The statistics polls outstanding: analyses suspended at `await getStats()`.
Polls == {t \in tasks : t.step = "getStats"}

\* The step resolves a statistics poll.
PollResolves ==
    last'.op \in {"logCandidateFailures.report", "logSuccessfulConnection.report"}

DiagnosedPairs ==
    IF last.op # "logCandidateFailures.report" THEN {}
    ELSE {r \in Range(candidatePairStats(last.stats)) :
            /\ r.state = "failed"
            /\ CandidateStats(last.stats, "local-candidate", r.localCandidateId) # NoReport
            /\ CandidateStats(last.stats, "remote-candidate", r.remoteCandidateId) # NoReport}

\* The report carries, after the entry of pair r, the reason, the details and the
\* suggestions of outcome, in this order.
Diagnosed(r, outcome) ==
    LET l == CandidateStats(last.stats, "local-candidate", r.localCandidateId)
        k == CandidateStats(last.stats, "remote-candidate", r.remoteCandidateId)
    IN
    \E i \in DOMAIN messages :
        /\ i + 2 + Len(outcome.suggestions) <= Len(messages)
        /\ messages[i].text = FailedMark \o CandidateInfo(l) \o " <-> " \o CandidateInfo(k)
        /\ messages[i + 1].text = "      " \o outcome.reason
        /\ messages[i + 2].text = "      " \o outcome.details
        /\ \A j \in DOMAIN outcome.suggestions :
               messages[i + 2 + j].text = "      " \o outcome.suggestions[j]

EarlierTimerFires ==
    /\ last'.op \in {"createOffer.timer", "handleRemoteOffer.timer"}
    /\ \E t \in tasks \ tasks' : t.step = "timer" /\ t.stale

\* C31: a grace timer armed by a createOffer or handleRemoteOffer of a session that
\* has been reset since exposes no offer and no answer.
C31_EarlierTimerExposesNothing ==
    [][EarlierTimerFires => localOffer' = localOffer /\ localAnswer' = localAnswer]_vars

\* The step resumes an initializeWebRTC that was suspended when reset() ran.
ResetInitializeResumes ==
    /\ last'.op = "initializeWebRTC.resume"
    /\ \E t \in tasks \ tasks' : t.kind = "initializeWebRTC" /\ t.stale

\* C32: an initializeWebRTC that reset() overtook while it awaited the media
\* permission builds no engine and sets no role when it resumes.
C32_ResetCancelsSuspendedInitialize ==
    [][ResetInitializeResumes =>
          /\ engines' = engines
          /\ peerConnection' = peerConnection
          /\ isInitiator' = isInitiator]_vars

\* C33: every engine that has been built and is not closed is the one the session
\* references, so that at most one engine is open at a time.
C33_OpenEngineIsReferenced ==
    \A n \in DOMAIN engines : ~engines[n].closed => peerConnection = n

\* C34: while the session references no engine, the local registry, the remote
\* registry and the pair tracker are empty.
C34_IdleSessionHoldsNoCandidates ==
    peerConnection = Null =>
        /\ localCandidates = EmptyMap
        /\ remoteCandidates = EmptyMap
        /\ candidatePairs = EmptyMap

\* The step is onconnectionstatechange reporting 'failed' for the engine the session
\* references, whose ICE state oniceconnectionstatechange has reported 'failed'
\* before.
ConnectionReportsFailed ==
    /\ last'.op = "onconnectionstatechange"
    /\ peerConnection # Null
    /\ engines[peerConnection].ice = "failed"
    /\ engines[peerConnection].conn # "failed"
    /\ engines'[peerConnection].conn = "failed"

\* C35: the connection state reporting the failure that the ICE state has already
\* reported starts no further failure analysis.
C35_OneAnalysisPerFailure ==
    [][ConnectionReportsFailed =>
          {t \in tasks' : t.kind = "logCandidateFailures"}
              \subseteq {t \in tasks : t.kind = "logCandidateFailures"}]_vars

\* C36: while usingCustomIceServers is set, the list initializeWebRTC hands to the
\* engine is the custom list applied last, and applying a text that is not a valid
\* list leaves the list and the flag as they were.
C36_CustomServersStayInUse ==
    /\ [](usingCustomIceServers => iceServers = applied)
    /\ [][(last'.op = "applyCustomIceServers" /\ ~ValidCustomText(customIceServersText)) =>
            /\ iceServers' = iceServers
            /\ usingCustomIceServers' = usingCustomIceServers]_vars

====
